---- MODULE Spec2Model ----
(***************************************************************************)
(* Hub connection of the esp-signalr client (src/src/hub_connection_impl.cpp)*)
(* as a state machine: start and the handshake shim with its three         *)
(* producers, stop, the disconnection handler, the reconnect cycle and the *)
(* invocation callbacks.  The connection core, the completion event, the   *)
(* cancellation token source and the callback manager are not part of the  *)
(* sources at hand; they are modelled after sections 4.B, 4.C, 4.D and 4.G *)
(* of the specification.                                                   *)
(*                                                                         *)
(* The websocket adapter (src/src/adapters/esp32_websocket_client.cpp) is  *)
(* a second state machine with variables of its own: start, stop, receive, *)
(* the socket's event handlers, the delivery task and its executor tasks,  *)
(* under the receive loop of the connection core (section 4.G).            *)
(* Three parts of the code are modelled on variables of their own: the     *)
(* frame reassembly of handle_data on byte streams, the two mutexes of the *)
(* adapter with the locked regions of each task, and the ping deadline     *)
(* that invoke_hub_method and the keepalive move.                          *)
(*                                                                         *)
(* The scheduler (src/src/signalr_default_scheduler.cpp) is a third state  *)
(* machine: schedule, the dispatcher task, its worker tasks and the timer  *)
(* helper, on a clock of one-second ticks.  The destructor of the          *)
(* scheduler is the only caller of close(); the destructor of a worker     *)
(* never runs: the dispatcher task ends in vTaskDelete (line 233) and      *)
(* leaves its workers as they are.                                         *)
(*                                                                         *)
(* Scope: the callbacks of start, stop and invoke and the continuations of *)
(* receive are taken to return normally                                    *)
(* (callback(nullptr) at the end of handle_handshake sits inside the try   *)
(* block, so a throwing start callback would be called again by the catch  *)
(* clause; handle_error of the adapter does the same).  The 60 s semaphore *)
(* timeout of reconnect_task_function (line 947) is part of SpecKa only;   *)
(* a failing xTaskCreate in attempt_reconnect (lines 1069-1088) and a      *)
(* delivery task that outlives stop next to the one a new start creates    *)
(* are left out.                                                           *)
(***************************************************************************)
EXTENDS Integers, Sequences, FiniteSets, TLC

\* ------------------------------------------------------------------ bounds
MaxUserStarts == 2   \* start calls the user issues in one run
MaxStops == 2        \* hub stop calls in one run
MaxTasks == 1        \* reconnect tasks created in one run
MaxInvokes == 1      \* invoke calls in one run
CapM == 2            \* max_reconnect_attempts of the runs that probe the cap
MaxOns == 3          \* calls of on() in one run
MaxWsStarts == 2     \* start calls on the websocket adapter in one run
MaxMsgs == 3         \* messages the socket delivers in one run
SmallQueue == 2      \* CONFIG_SIGNALR_MAX_QUEUE_SIZE of the runs that fill the queue
MaxStream == 4       \* bytes of the streams the frame reassembler is given
MaxTime == 5         \* clock ticks of the runs that watch the ping deadline
KeepaliveTicks == 2  \* keepalive_interval of these runs, in clock ticks
MaxItems == 3        \* work items passed to schedule in one run
MaxDelay == 1        \* longest delay passed to schedule, in seconds
MaxTimerCalls == 3   \* invocations after which the timer predicate returns true

\* ------------------------------------------------------- program constants
MAX_WAIT_TICKS == 30 \* MAX_WAIT_MS of the poll loop, in 1 s timer ticks
MAX_MESSAGE_QUEUE_SIZE == 20  \* adapter: default queue capacity and semaphore permits
WORKER_THREAD_POOL_SIZE == 2
SHUTDOWN_RETRY_COUNT == 100    \* scheduler: polls of the destructor's wait
SHUTDOWN_RETRY_DELAY_MS == 10  \* scheduler: milliseconds between two polls
MAX_CALLBACK_EXEC_TASKS == 2  \* adapter: slots of the executor limiter

Min(a, b) == IF a < b THEN a ELSE b
Max(a, b) == IF a < b THEN b ELSE a

\* sizes of the tables that hold the start calls and the reconnect tasks
MaxSessions == Max(Max(MaxUserStarts, MaxTasks + 1), CapM + 2)
MaxTaskSlots == Max(MaxTasks, CapM + 1)

Users == {"u1", "u2"}
TaskNames == <<"t1", "t2", "t3", "t4", "t5", "t6">>
Tasks == {TaskNames[i] : i \in 1..MaxTaskSlots}
Runners == {"hd"} \cup Tasks
Sessions == 1..MaxSessions
Producers == {"send", "timer", "cts"}
Targets == {"a", "b"}
\* continuations the receive loops can create: one per start, one per message
\* messages of a run that fills a queue of SmallQueue while every executor
\* is busy and the delivery task holds one more message
FillMsgs == SmallQueue + MAX_CALLBACK_EXEC_TASKS + 1
MaxConts == Max(MaxWsStarts + MaxMsgs, 1 + FillMsgs)
Conts == 1..MaxConts

VARIABLES
    cfg,                   \* signalr_client_config and the scenario of the run
    coreState,             \* connection_impl: the published connection state
    corePending,           \* connection_impl: session whose start is in flight (0: none)
    coreCancel,            \* connection_impl: the in-flight start was cancelled by a stop
    coreStopCbs,           \* connection_impl: completions of the in-flight stop
    stopError,             \* connection_impl: error the in-flight stop carries
    fan,                   \* connection_impl: stop completions being fanned out
    m_handshakeTask,       \* session whose completion_event m_handshakeTask points to
    m_disconnect_cts,      \* session whose cancellation source m_disconnect_cts points to
    m_handshakeReceived,
    m_reconnecting,
    m_reconnect_attempts,
    m_reconnect_cts,       \* id of the reconnect cancellation source (0: null)
    rctsCanceled,          \* reconnect cancellation sources that were cancelled
    nextRcts,
    m_stop_callbacks,      \* sequence of stop call ids
    sess,                  \* per start call: completion event, token, shim and producers
    nextSess,
    hd,                    \* the task running handle_disconnection
    ar,                    \* attempt_reconnect frame of each runner
    tasks,                 \* reconnect tasks
    nextTask,
    upc,                   \* position of each user task
    uarg,                  \* the start or stop call a user task is in
    stops,                 \* per stop call: times its callback fired and the outcome
    nextStop,
    userStarts,
    table,                 \* callback_manager: registered invocation ids
    inv,                   \* per invoke call: position, times the continuation fired
    nextInv,
    hist,                  \* observations of the run the properties refer to
    m_subscriptions,       \* handler registered for each target (0: none)
    onCall,                \* the call of on() in progress
    onCalls,               \* calls of on() made so far
    onResult,              \* outcome of the last call of on()
    firstHandler,          \* first handler each target was registered with
    dispatch,              \* the last message process_message dispatched: target or
                           \* kind, and the handler called
    ka,                    \* keepalive timer and server-timeout deadline
    ws,                    \* websocket adapter: its fields
    sock,                  \* the underlying socket
    wsCall,                \* the call of start or stop on the adapter in progress
    dt,                    \* the delivery task (callback_processor_task)
    ex,                    \* the executor tasks
    conts,                 \* per continuation given to receive: invocations, fate
    wsn,                   \* receive loop, counters and observations of the run
    m_receive_buffer,      \* adapter: bytes received after the last separator
    split,                 \* the data events a byte stream arrives in
    nextEvent,             \* index of the next data event
    enqueued,              \* the messages handle_data has pushed, in order
    connStart,             \* index of the first data event after the last start
    holder,                \* adapter: the task that holds each of the two mutexes
    lockPath,              \* per task: the lock operations left on its code path
    now,                   \* steady_clock::now(), in ticks
    m_nextActivationSendPing,  \* deadline after which the keepalive timer sends a ping
    lastSend,              \* the last send of invoke_hub_method or send_ping, its outcome
    m_callbacks,           \* scheduler: the list of (work, ready time) pairs, the
                           \* ready time kept as the seconds left until it
    sch,                   \* scheduler: m_closed, the holder of m_callback_mutex, the
                           \* seconds its destructor still waits, whether it is gone
    disp,                  \* the dispatcher task (scheduler_task_function)
    threads,               \* the worker tasks and their internals
    work,                  \* per work item: its executions, whether one came before
                           \* the ready time
    tmr,                   \* the timer: the invocations of its predicate, whether
                           \* one came before the ready time of its lambda
    schObs                 \* the asserts of thread::add so far

coreVars == <<coreState, corePending, coreCancel, coreStopCbs, stopError, fan>>
hsVars == <<m_handshakeTask, m_disconnect_cts, m_handshakeReceived>>
rcVars == <<m_reconnecting, m_reconnect_attempts, m_reconnect_cts, rctsCanceled, nextRcts>>
taskVars == <<ar, tasks, nextTask>>
userVars == <<upc, uarg, userStarts>>
stopVars == <<m_stop_callbacks, stops, nextStop>>
invVars == <<table, inv, nextInv>>
subVars == <<m_subscriptions, onCall, onCalls, onResult, firstHandler, dispatch>>
kaVars == <<ka>>
wsVars == <<ws, sock, wsCall, dt, ex, conts, wsn>>
hubVars == <<cfg, coreVars, hsVars, rcVars, sess, nextSess, hd, taskVars, userVars,
             stopVars, invVars, hist, subVars, kaVars>>
frVars == <<m_receive_buffer, split, nextEvent, enqueued, connStart>>
lkVars == <<holder, lockPath>>
pingVars == <<now, m_nextActivationSendPing, lastSend>>
schVars == <<m_callbacks, sch, disp, threads, work, tmr, schObs>>
unitVars == <<frVars, lkVars, pingVars, schVars>>
vars == <<hubVars, wsVars, unitVars>>

\* ---------------------------------------------------------------- initial
FreeSession ==
    [caller |-> "none", cb |-> 0, res |-> "none", event |-> "unset", cts |-> "open",
     reg |-> 0, ht |-> 0, done |-> FALSE, dur |-> 0, pollStart |-> 0,
     pc |-> [p \in Producers |-> "none"], exc |-> [p \in Producers |-> "null"]]

IdleHd ==
    [pc |-> "idle", exc |-> "null", cbs |-> <<>>, c |-> 0, should |-> FALSE, fired |-> 0,
     user |-> FALSE, foreign |-> FALSE]
IdleAr == [pc |-> "idle", attempt |-> 0, cts |-> 0]
FreeTask == [pc |-> "free", attempt |-> 0, cts |-> 0, s |-> 0, own |-> FALSE]

InitHist ==
    [startAssert |-> TRUE, stopAssert |-> TRUE, userStopDone |-> FALSE,
     consecFailed |-> 0, attemptNo |-> 0, lastDelay |-> 0, lastK |-> 0,
     fireState |-> "none", fireForeign |-> FALSE,
     gaveUp |-> FALSE, stopInCycle |-> FALSE]

IdleOn == [pc |-> "idle", target |-> "", h |-> 0]
NoDispatch == [target |-> "", h |-> 0, threw |-> FALSE]

IdleCall == [op |-> "none", pc |-> ""]
IdleDt == [pc |-> "wait", cb |-> 0, msg |-> 0]

\* the adapter after construction: no client, no delivery task, all limiter
\* slots free
InitWs ==
    /\ ws = [client |-> FALSE, stopping |-> FALSE, connected |-> FALSE,
             running |-> FALSE, bitC |-> FALSE, bitD |-> FALSE,
             pending |-> 0, queue |-> <<>>, sem |-> 0,
             limiter |-> MAX_CALLBACK_EXEC_TASKS]
    /\ sock = "none"
    /\ wsCall = IdleCall
    /\ dt = [pc |-> "exited", cb |-> 0, msg |-> 0]
    /\ ex = {}
    /\ conts = [c \in Conts |-> [fired |-> 0, how |-> "none", lost |-> "no", msg |-> 0]]
    /\ wsn = [nextCont |-> 1, msgs |-> 0, starts |-> 0, stops |-> 0,
              active |-> FALSE, loop |-> "off",
              stopDone |-> FALSE, late |-> FALSE, owed |-> FALSE, owedCont |-> 0]

\* the receive buffer after construction, before any data event
InitBuffer ==
    m_receive_buffer = <<>> /\ nextEvent = 1 /\ enqueued = <<>> /\ connStart = 1

InitRun(c) ==
    /\ InitWs
    /\ cfg = c
    /\ coreState = "disconnected" /\ corePending = 0 /\ coreCancel = FALSE
    /\ coreStopCbs = <<>> /\ stopError = "null" /\ fan = <<>>
    /\ m_handshakeTask = 0 /\ m_disconnect_cts = 0 /\ m_handshakeReceived = FALSE
    /\ m_reconnecting = FALSE /\ m_reconnect_attempts = 0 /\ m_reconnect_cts = 0
    /\ rctsCanceled = {} /\ nextRcts = 1
    /\ m_stop_callbacks = <<>>
    /\ sess = [s \in Sessions |-> FreeSession] /\ nextSess = 1
    /\ hd = IdleHd
    /\ ar = [r \in Runners |-> IdleAr]
    /\ tasks = [t \in Tasks |-> FreeTask] /\ nextTask = 1
    /\ upc = [u \in Users |-> "idle"] /\ uarg = [u \in Users |-> 0] /\ userStarts = 0
    /\ stops = [k \in 1..MaxStops |-> [cb |-> 0, res |-> "none", batch |-> 0]]
    /\ nextStop = 1
    /\ table = {} /\ inv = [i \in 1..MaxInvokes |->
                               [pc |-> "free", fired |-> 0, how |-> "none", cleared |-> FALSE]]
    /\ nextInv = 1
    /\ hist = InitHist
    /\ m_subscriptions = [t \in Targets |-> 0]
    /\ onCall = IdleOn /\ onCalls = 0 /\ onResult = "none"
    /\ firstHandler = [t \in Targets |-> 0]
    /\ dispatch = NoDispatch
    /\ ka = [armed |-> FALSE, overdue |-> FALSE, timers |-> 0]

\* the tasks that take the two mutexes of the adapter: the event handler of
\* the socket, the delivery task, a caller of receive and the caller of
\* start and stop
LockTasks == {"event", "delivery", "receive", "control"}
Locks == {"m_queue_mutex", "m_callback_mutex"}

\* both mutexes free, no task inside a locked region
InitLocks ==
    /\ holder = [l \in Locks |-> "free"]
    /\ lockPath = [t \in LockTasks |-> <<>>]

\* the clock and the ping deadline before the first send
InitPing ==
    /\ now = 0
    /\ m_nextActivationSendPing = 0
    /\ lastSend = [by |-> "none", outcome |-> "none"]

\* the scheduler after run() and the dispatcher after the construction of
\* its workers: nothing queued, every worker waiting for work
Workers == 1..WORKER_THREAD_POOL_SIZE
Items == 1..MaxItems
NoItem == [id |-> -1, due |-> 0, duration |-> 0]

InitSched ==
    /\ m_callbacks = <<>>
    /\ sch = [m_closed |-> FALSE, lock |-> "free", wait |-> 0, destroyed |-> FALSE]
    /\ disp = [pc |-> "sleep", it |-> 0, ready |-> {}, w |-> 0]
    /\ threads = [w \in Workers |->
                     [m_callback |-> NoItem, m_busy |-> FALSE, m_closed |-> FALSE,
                      sem |-> 0, pc |-> "wait", cb |-> NoItem, served |-> FALSE]]
    /\ work = [i \in Items |->
                  [state |-> "new", runs |-> 0, early |-> FALSE]]
    /\ tmr = [armed |-> FALSE, calls |-> <<>>, tooSoon |-> FALSE]
    /\ schObs = [notClosed |-> TRUE, notBusy |-> TRUE]

InitWith(c) ==
    InitRun(c) /\ InitBuffer /\ split = <<>> /\ InitLocks /\ InitPing /\ InitSched

\* ------------------------------------------------- helpers on the variables
\* the callback given to start(cb) of call s is invoked with result r
FireStart(ss, s, r) ==
    [ss EXCEPT ![s].cb = Min(@ + 1, 2),
               ![s].res = IF @ = "none" THEN r ELSE @]

\* completion_event::set : a second set is a no-op
SetEvent(ss, s, v) ==
    IF s = 0 \/ ss[s].event # "unset" THEN ss ELSE [ss EXCEPT ![s].event = v]

\* ------------------------------------------------------------- hub start
\* the shim tasks of start call s (send callback, handshake timer, token
\* callback) have run to completion
Drained(s) ==
    /\ sess[s].pc["send"] \in {"none", "end"}
    /\ sess[s].pc["timer"] \in {"none", "end"}
    /\ sess[s].pc["cts"] \in {"none", "reg", "end"}

\* start call s passed the state check and its core start has not completed
Starting(s) ==
    \/ corePending = s
    \/ \E u \in Users : upc[u] = "start_core" /\ uarg[u] = s
    \/ \E k \in Tasks : tasks[k].pc = "start_core" /\ tasks[k].s = s

\* what is kept of a start call whose shim tasks are gone
Archived(a) ==
    IF a.caller = "none" THEN a
    ELSE [FreeSession EXCEPT !.caller = a.caller, !.cb = a.cb, !.res = a.res,
                             !.done = TRUE, !.event = "err", !.cts = "canceled"]

\* start(), the state check and the reset of the per-start fields
StartCheck(t) ==
    /\ nextSess <= cfg.sessions
    /\ \A s \in Sessions : Drained(s)
    /\ nextSess' = nextSess + 1
    /\ IF coreState # "disconnected"
       THEN /\ sess' = FireStart([sess EXCEPT ![nextSess].caller = t], nextSess, "err")
            /\ UNCHANGED <<hsVars, m_reconnect_attempts>>
       ELSE /\ m_reconnect_attempts' = IF m_reconnecting THEN m_reconnect_attempts ELSE 0
            /\ m_handshakeTask' = nextSess
            /\ m_disconnect_cts' = nextSess
            /\ m_handshakeReceived' = FALSE
            /\ sess' = [s \in Sessions |->
                          IF s = nextSess THEN [sess[s] EXCEPT !.caller = t]
                          ELSE IF Starting(s) THEN sess[s]
                          ELSE Archived(sess[s])]
    /\ UNCHANGED <<m_reconnecting, m_reconnect_cts, rctsCanceled, nextRcts>>

\* start(), the call of connection_impl::start; a core that is not
\* disconnected reports the failure at once and the assert sees that state
StartCore(s) ==
    IF coreState # "disconnected"
    THEN /\ sess' = FireStart(sess, s, "err")
         /\ hist' = [hist EXCEPT !.startAssert = FALSE]
         /\ UNCHANGED coreVars
    ELSE /\ coreState' = "connecting"
         /\ corePending' = s
         /\ coreCancel' = FALSE
         /\ UNCHANGED <<coreStopCbs, stopError, fan, sess, hist>>

UserStartCheck(u) ==
    /\ u \in cfg.starters /\ upc[u] = "idle"
    /\ userStarts < cfg.userStarts
    /\ StartCheck(u)
    /\ userStarts' = userStarts + 1
    /\ uarg' = [uarg EXCEPT ![u] = nextSess]
    /\ upc' = [upc EXCEPT ![u] = IF coreState # "disconnected" THEN "idle" ELSE "start_core"]
    /\ hist' = [hist EXCEPT !.userStopDone = FALSE,
                            !.stopInCycle = FALSE,
                            !.consecFailed = IF m_reconnecting THEN @ ELSE 0,
                            !.attemptNo = IF m_reconnecting THEN @ ELSE 0]
    /\ UNCHANGED <<cfg, wsVars, unitVars, subVars, kaVars, coreVars, hd, taskVars, stopVars, invVars>>

UserStartCore(u) ==
    /\ upc[u] = "start_core"
    /\ StartCore(uarg[u])
    /\ upc' = [upc EXCEPT ![u] = "idle"]
    /\ hd' = IF hd.pc # "idle" /\ coreState = "disconnected"
             THEN [hd EXCEPT !.foreign = TRUE] ELSE hd
    /\ UNCHANGED <<cfg, wsVars, unitVars, subVars, kaVars, hsVars, rcVars, nextSess, taskVars, uarg, userStarts,
                   stopVars, invVars>>

\* ------------------------------------------------ connection core: start
\* the transport opened: the core is connected and the start callback builds
\* the handshake shim, registers it with the disconnect token, arms the
\* handshake timer and sends the handshake request
CoreStartSucceeds ==
    /\ coreState = "connecting" /\ corePending # 0 /\ ~coreCancel
    /\ LET s == corePending
           c == m_disconnect_cts
       IN  sess' = [sess EXCEPT
                ![s].reg = c,
                ![s].ht = m_handshakeTask,
                ![s].dur = 0,
                ![s].pc = [send |-> "inflight", timer |-> "armed",
                           cts |-> IF sess[c].cts = "canceled" THEN "check" ELSE "reg"]]
    /\ coreState' = "connected"
    /\ corePending' = 0
    /\ UNCHANGED <<cfg, wsVars, unitVars, subVars, kaVars, coreCancel, coreStopCbs, stopError, fan, hsVars, rcVars, nextSess,
                   hd, taskVars, userVars, stopVars, invVars, hist>>

\* negotiation or the transport failed, or a stop cancelled the start
CoreStartFails ==
    /\ coreState = "connecting" /\ corePending # 0
    /\ coreState' = "disconnected"
    /\ corePending' = 0
    /\ coreCancel' = FALSE
    /\ sess' = FireStart(sess, corePending, "err")
    /\ fan' = fan \o coreStopCbs
    /\ coreStopCbs' = <<>>
    /\ stopError' = "null"
    /\ UNCHANGED <<cfg, wsVars, unitVars, subVars, kaVars, hsVars, rcVars, nextSess, hd, taskVars, userVars, stopVars,
                   invVars, hist>>

\* negotiate found ProtocolVersion in the response: the start fails with the
\* error that tells a legacy server
CoreStartLegacy ==
    /\ coreState = "connecting" /\ corePending # 0
    /\ coreState' = "disconnected"
    /\ corePending' = 0
    /\ coreCancel' = FALSE
    /\ sess' = FireStart(sess, corePending, "legacy")
    /\ fan' = fan \o coreStopCbs
    /\ coreStopCbs' = <<>>
    /\ stopError' = "null"
    /\ UNCHANGED <<cfg, wsVars, unitVars, subVars, kaVars, hsVars, rcVars, nextSess, hd, taskVars, userVars,
                   stopVars, invVars, hist>>

\* connection_impl::stop(cb, exc) on a core that is not disconnected
EnqueueStop(cb, exc) ==
    /\ coreState' = IF coreState = "connected" THEN "disconnecting" ELSE coreState
    /\ coreCancel' = IF coreState = "connecting" THEN TRUE ELSE coreCancel
    /\ coreStopCbs' = Append(coreStopCbs, cb)
    /\ stopError' = IF coreStopCbs = <<>> THEN exc ELSE stopError
    /\ UNCHANGED <<corePending, fan>>

\* --------------------------------------------------- the handshake shim
\* callback of the send of the handshake request
SendCb(s, e) ==
    /\ sess[s].pc["send"] = "inflight"
    /\ sess' = IF sess[s].done
               THEN [sess EXCEPT ![s].pc["send"] = "end"]
               ELSE [sess EXCEPT ![s].done = TRUE,
                                 ![s].exc["send"] = e,
                                 ![s].pollStart = IF e = "null" THEN sess[s].dur ELSE @,
                                 ![s].pc["send"] = IF e = "null" THEN "wait" ELSE "stop"]
    /\ UNCHANGED <<cfg, wsVars, unitVars, subVars, kaVars, coreVars, hsVars, rcVars, nextSess, hd, taskVars, userVars,
                   stopVars, invVars, hist>>

\* one tick of the handshake timer, the part under the lock
TimerTick(s) ==
    /\ sess[s].pc["timer"] = "armed"
    /\ sess' = [sess EXCEPT
            ![s].dur = @ + 1,
            ![s].pc["timer"] = IF sess[sess[s].ht].event # "unset" THEN "end"
                               ELSE IF sess[s].dur + 1 < cfg.hsTimeout THEN "armed"
                               ELSE "fire"]
    /\ UNCHANGED <<cfg, wsVars, unitVars, subVars, kaVars, coreVars, hsVars, rcVars, nextSess, hd, taskVars, userVars,
                   stopVars, invVars, hist>>

\* the timer resolves the event with the timeout error and runs the shim
TimerFire(s) ==
    /\ sess[s].pc["timer"] = "fire"
    /\ sess' = [SetEvent(sess, sess[s].ht, "err") EXCEPT ![s].exc["timer"] = "err",
                                                         ![s].pc["timer"] = "guard"]
    /\ UNCHANGED <<cfg, wsVars, unitVars, subVars, kaVars, coreVars, hsVars, rcVars, nextSess, hd, taskVars, userVars,
                   stopVars, invVars, hist>>

\* callback registered with the disconnect token, the part under the lock
CtsCheck(s) ==
    /\ sess[s].pc["cts"] = "check"
    /\ sess' = [sess EXCEPT ![s].pc["cts"] = IF sess[s].done THEN "end" ELSE "guard"]
    /\ UNCHANGED <<cfg, wsVars, unitVars, subVars, kaVars, coreVars, hsVars, rcVars, nextSess, hd, taskVars, userVars,
                   stopVars, invVars, hist>>

\* handle_handshake without the test of handshake_request_done
HHGuard_unguarded(s, p) ==
    /\ p \in {"timer", "cts"}
    /\ sess[s].pc[p] = "guard"
    /\ sess' = [sess EXCEPT ![s].done = TRUE,
                            ![s].pollStart = IF sess[s].exc[p] = "null" THEN sess[s].dur ELSE @,
                            ![s].pc[p] = IF sess[s].exc[p] = "null" THEN "wait" ELSE "stop"]
    /\ UNCHANGED <<cfg, wsVars, unitVars, subVars, kaVars, coreVars, hsVars, rcVars, nextSess, hd, taskVars, userVars,
                   stopVars, invVars, hist>>

\* handle_handshake(exception, false): the guard under the lock
HHGuard(s, p) ==
    /\ p \in {"timer", "cts"}
    /\ sess[s].pc[p] = "guard"
    /\ sess' = IF sess[s].done
               THEN [sess EXCEPT ![s].pc[p] = "end", ![s].exc[p] = "null"]
               ELSE [sess EXCEPT ![s].done = TRUE,
                                 ![s].pollStart = IF sess[s].exc[p] = "null"
                                                  THEN sess[s].dur ELSE @,
                                 ![s].pc[p] = IF sess[s].exc[p] = "null" THEN "wait" ELSE "stop"]
    /\ UNCHANGED <<cfg, wsVars, unitVars, subVars, kaVars, coreVars, hsVars, rcVars, nextSess, hd, taskVars, userVars,
                   stopVars, invVars, hist>>

\* start_keepalive: the deadline of the server timeout is reset and one
\* more keepalive timer is scheduled
start_keepalive(k) == [armed |-> TRUE, overdue |-> FALSE, timers |-> k.timers + 1]

\* a tick of a keepalive timer that finds the connection not connected:
\* the callback returns true and that timer ends
EndTimer(k) == [k EXCEPT !.timers = @ - 1, !.armed = k.timers > 1]

\* every armed keepalive timer has ticked and ended
EndTimers(k) == [k EXCEPT !.timers = 0, !.armed = FALSE]

\* reset_server_timeout
reset_server_timeout(k) == [k EXCEPT !.overdue = FALSE]

\* handle_handshake: the poll loop saw the completion event set; after a
\* success the start callback is called and the keepalive is started
HHWait(s, p) ==
    /\ sess[s].pc[p] = "wait"
    /\ m_handshakeTask # 0
    /\ sess[m_handshakeTask].event # "unset"
    /\ sess' = IF sess[m_handshakeTask].event = "ok"
               THEN [FireStart(sess, s, "ok") EXCEPT ![s].pc[p] = "end", ![s].pollStart = 0]
               ELSE [sess EXCEPT ![s].exc[p] = sess[m_handshakeTask].event,
                                 ![s].pc[p] = "stop", ![s].pollStart = 0]
    /\ ka' = IF sess[m_handshakeTask].event = "ok" THEN start_keepalive(ka) ELSE ka
    /\ UNCHANGED <<cfg, wsVars, unitVars, subVars, coreVars, hsVars, rcVars, nextSess, hd, taskVars, userVars,
                   stopVars, invVars, hist>>

\* handle_handshake: the poll loop gave up after MAX_WAIT_MS
HHWaitTimeout(s, p) ==
    /\ sess[s].pc[p] = "wait"
    /\ m_handshakeTask # 0
    /\ sess[m_handshakeTask].event = "unset"
    /\ sess[s].dur - sess[s].pollStart >= MAX_WAIT_TICKS
    /\ sess' = [sess EXCEPT ![s].exc[p] = "err", ![s].pc[p] = "stop", ![s].pollStart = 0]
    /\ UNCHANGED <<cfg, wsVars, unitVars, subVars, kaVars, coreVars, hsVars, rcVars, nextSess, hd, taskVars, userVars,
                   stopVars, invVars, hist>>

\* the completion handle_handshake hands to the stop of the core carries
\* the exception of the handshake
HsStop(exception) == IF exception = "rejected" THEN "hs_rejected" ELSE "hs"

\* handle_handshake: the handshake failed, the connection is stopped and the
\* start callback is the completion of that stop
HHStop(s, p) ==
    /\ sess[s].pc[p] = "stop"
    /\ IF coreState = "disconnected"
       THEN /\ sess' = [FireStart(sess, s, sess[s].exc[p]) EXCEPT ![s].pc[p] = "end",
                                                                   ![s].exc[p] = "null"]
            /\ UNCHANGED coreVars
       ELSE /\ sess' = [sess EXCEPT ![s].pc[p] = "end", ![s].exc[p] = "null"]
            /\ EnqueueStop([k |-> HsStop(sess[s].exc[p]), s |-> s], "err")
    /\ UNCHANGED <<cfg, wsVars, unitVars, subVars, kaVars, hsVars, rcVars, nextSess, hd, taskVars, userVars, stopVars,
                   invVars, hist>>

\* process_message while the handshake is not received: the response of the
\* server is a success (r = "ok") or carries an error or a type field
ProcessHandshake(r) ==
    /\ coreState = "connected"
    /\ ~m_handshakeReceived
    /\ m_handshakeTask # 0
    /\ sess' = SetEvent(sess, m_handshakeTask, r)
    /\ m_handshakeReceived' = (r = "ok")
    /\ UNCHANGED <<cfg, wsVars, unitVars, subVars, kaVars, coreVars, m_handshakeTask, m_disconnect_cts, rcVars, nextSess, hd,
                   taskVars, userVars, stopVars, invVars, hist>>

\* ---------------------------------------------------------------- hub stop
FireStop(st, k, r, b) ==
    [st EXCEPT ![k].cb = Min(@ + 1, 2),
               ![k].res = IF @ = "none" THEN r ELSE @,
               ![k].batch = b]

RECURSIVE FireStops(_, _, _, _)
FireStops(st, ks, r, b) ==
    IF ks = <<>> THEN st ELSE FireStops(FireStop(st, Head(ks), r, b), Tail(ks), r, b)

\* stop(), the block under m_reconnect_lock that cancels a reconnect cycle
StopReconn(u) ==
    /\ u \in cfg.users /\ upc[u] = "idle"
    /\ nextStop <= cfg.stops
    /\ nextStop' = nextStop + 1
    /\ uarg' = [uarg EXCEPT ![u] = nextStop]
    /\ upc' = [upc EXCEPT ![u] = "stop_check"]
    /\ IF m_reconnecting
       THEN /\ m_reconnecting' = FALSE
            /\ m_reconnect_attempts' = 0
            /\ rctsCanceled' = IF m_reconnect_cts # 0
                               THEN rctsCanceled \cup {m_reconnect_cts} ELSE rctsCanceled
       ELSE UNCHANGED <<m_reconnecting, m_reconnect_attempts, rctsCanceled>>
    /\ hist' = IF m_reconnecting
               THEN [hist EXCEPT !.consecFailed = 0, !.attemptNo = 0, !.stopInCycle = TRUE]
               ELSE hist
    /\ UNCHANGED <<cfg, wsVars, unitVars, subVars, kaVars, coreVars, hsVars, m_reconnect_cts, nextRcts, sess, nextSess, hd,
                   taskVars, userStarts, m_stop_callbacks, stops, invVars>>

\* stop() returning from the state test without calling the callback
StopCheck_silent(u) ==
    /\ upc[u] = "stop_check"
    /\ upc' = [upc EXCEPT ![u] = IF coreState = "disconnected" THEN "idle" ELSE "stop_push"]
    /\ UNCHANGED <<cfg, wsVars, unitVars, subVars, kaVars, coreVars, hsVars, rcVars, sess, nextSess, hd, taskVars, uarg,
                   userStarts, stopVars, invVars, hist>>

\* stop(), the state test; an already disconnected connection completes at once
StopCheck(u) ==
    /\ upc[u] = "stop_check"
    /\ IF coreState = "disconnected"
       THEN /\ stops' = FireStop(stops, uarg[u], "ok", 0)
            /\ upc' = [upc EXCEPT ![u] = "idle"]
            /\ hist' = [hist EXCEPT !.userStopDone = (upc["u1"] \notin {"start_core"})]
       ELSE /\ upc' = [upc EXCEPT ![u] = "stop_push"]
            /\ UNCHANGED <<stops, hist>>
    /\ UNCHANGED <<cfg, wsVars, unitVars, subVars, kaVars, coreVars, hsVars, rcVars, sess, nextSess, hd, taskVars, uarg,
                   userStarts, m_stop_callbacks, nextStop, invVars>>

\* stop(), the callback joins m_stop_callbacks under m_stop_callback_lock
StopPush(u) ==
    /\ upc[u] = "stop_push"
    /\ m_stop_callbacks' = Append(m_stop_callbacks, uarg[u])
    /\ upc' = [upc EXCEPT ![u] = IF Len(m_stop_callbacks) + 1 > 1 THEN "idle" ELSE "stop_core"]
    /\ UNCHANGED <<cfg, wsVars, unitVars, subVars, kaVars, coreVars, hsVars, rcVars, sess, nextSess, hd, taskVars, uarg,
                   userStarts, stops, nextStop, invVars, hist>>

\* the completion stop() hands to connection_impl::stop: the assert, then
\* the callbacks are copied out of the list, the list is cleared, and
\* every callback gets the outcome of the stop
StopLambda(r) ==
    /\ stops' = FireStops(stops, m_stop_callbacks, r,
                          IF m_stop_callbacks = <<>> THEN 0 ELSE Head(m_stop_callbacks))
    /\ m_stop_callbacks' = <<>>
    /\ hist' = [hist EXCEPT
            !.stopAssert = @ /\ (coreState = "disconnected"),
            !.userStopDone = IF m_stop_callbacks # <<>>
                             THEN (upc["u1"] \notin {"start_core"}) ELSE @]

\* stop(), the call of connection_impl::stop
StopCore(u) ==
    /\ upc[u] = "stop_core"
    /\ upc' = [upc EXCEPT ![u] = "idle"]
    /\ IF coreState = "disconnected"
       THEN /\ StopLambda("ok")
            /\ UNCHANGED coreVars
       ELSE /\ EnqueueStop([k |-> "hub", s |-> 0], "null")
            /\ UNCHANGED <<m_stop_callbacks, stops, hist>>
    /\ UNCHANGED <<cfg, wsVars, unitVars, subVars, kaVars, hsVars, rcVars, sess, nextSess, hd, taskVars, uarg, userStarts,
                   nextStop, invVars>>

\* ------------------------------------------- connection core: stop, loss
\* the transport of the in-flight stop is torn down: the core is
\* disconnected and calls the disconnection handler with the stop's error
CoreStopCompletes ==
    /\ coreState = "disconnecting" /\ hd.pc = "idle"
    /\ coreState' = "disconnected"
    /\ hd' = [IdleHd EXCEPT !.pc = "settask", !.exc = stopError, !.cbs = coreStopCbs,
                             !.user = (Head(coreStopCbs).k = "hub")]
    /\ tasks' = [t \in Tasks |-> [tasks[t] EXCEPT !.own = FALSE]]
    /\ coreStopCbs' = <<>>
    /\ stopError' = "null"
    /\ UNCHANGED <<cfg, wsVars, unitVars, subVars, kaVars, corePending, coreCancel, fan, hsVars, rcVars, sess, nextSess,
                   ar, nextTask, userVars, stopVars, invVars, hist>>

\* the transport died while the connection was open: the core stops the
\* connection with the error
TransportError ==
    /\ coreState = "connected"
    /\ EnqueueStop([k |-> "loss", s |-> 0], "err")
    /\ UNCHANGED <<cfg, wsVars, unitVars, subVars, kaVars, hsVars, rcVars, sess, nextSess, hd, taskVars, userVars, stopVars,
                   invVars, hist>>

\* one completion of a finished stop is delivered
FanDeliver ==
    /\ fan # <<>>
    /\ fan' = Tail(fan)
    /\ LET cb == Head(fan) IN
       CASE cb.k = "hs" ->
              /\ sess' = FireStart(sess, cb.s, "err")
              /\ UNCHANGED <<stopVars, hist>>
         [] cb.k = "hs_rejected" ->
              /\ sess' = FireStart(sess, cb.s, "rejected")
              /\ UNCHANGED <<stopVars, hist>>
         [] cb.k = "hub" ->
              /\ StopLambda("ok")
              /\ UNCHANGED <<sess, nextStop>>
         [] OTHER -> UNCHANGED <<sess, stopVars, hist>>
    /\ UNCHANGED <<cfg, wsVars, unitVars, subVars, kaVars, coreState, corePending, coreCancel, coreStopCbs, stopError, hsVars,
                   rcVars, nextSess, hd, taskVars, userVars, invVars>>

\* ------------------------------------------------- handle_disconnection
\* m_handshakeTask->set(error): completes a start that waits for the handshake
HdSetTask ==
    /\ hd.pc = "settask"
    /\ sess' = SetEvent(sess, m_handshakeTask, "err")
    /\ hd' = [hd EXCEPT !.pc = "cancel"]
    /\ UNCHANGED <<cfg, wsVars, unitVars, subVars, kaVars, coreVars, hsVars, rcVars, nextSess, taskVars, userVars, stopVars,
                   invVars, hist>>

\* m_disconnect_cts->cancel(): the callbacks registered with the source run
\* on this task before cancel returns
HdCancel ==
    /\ hd.pc = "cancel"
    /\ LET c == m_disconnect_cts IN
       /\ sess' = [s \in Sessions |->
              LET a == IF s = c THEN [sess[s] EXCEPT !.cts = "canceled"] ELSE sess[s]
              IN  IF a.reg = c /\ c # 0 /\ a.pc["cts"] = "reg"
                  THEN [a EXCEPT !.pc["cts"] = "check"] ELSE a]
       /\ hd' = [hd EXCEPT !.pc = "clear", !.c = c]
    /\ UNCHANGED <<cfg, wsVars, unitVars, subVars, kaVars, coreVars, hsVars, rcVars, nextSess, taskVars, userVars, stopVars,
                   invVars, hist>>

CancelCallbacksDone ==
    \A s \in Sessions :
        sess[s].reg = hd.c /\ hd.c # 0 => sess[s].pc["cts"] \notin {"check", "guard", "wait", "stop"}

\* callback_manager::clear : every registered continuation gets the
\* connection-stopped error and the table is emptied
ClearTable(iv) ==
    [i \in 1..MaxInvokes |->
        IF i \in table
        THEN [iv[i] EXCEPT !.fired = Min(@ + 1, 2), !.how = "stopped", !.cleared = TRUE]
        ELSE [iv[i] EXCEPT !.cleared = (iv[i].pc # "free")]]

HdClear ==
    /\ hd.pc = "clear"
    /\ CancelCallbacksDone
    /\ inv' = ClearTable(inv)
    /\ table' = {}
    /\ hd' = [hd EXCEPT !.pc = "decide"]
    /\ UNCHANGED <<cfg, wsVars, unitVars, subVars, kaVars, coreVars, hsVars, rcVars, sess, nextSess, taskVars, userVars,
                   stopVars, nextInv, hist>>

\* the reconnect decision without the test of the exception
ShouldReconnect_anyExit(exception) ==
    /\ cfg.auto
    /\ ~m_reconnecting
    /\ (cfg.max = -1 \/ m_reconnect_attempts < cfg.max)

\* the reconnect decision under m_reconnect_lock
ShouldReconnect(exception) ==
    /\ exception # "null"
    /\ cfg.auto
    /\ ~m_reconnecting
    /\ (cfg.max = -1 \/ m_reconnect_attempts < cfg.max)

HdDecide ==
    /\ hd.pc = "decide"
    /\ hd' = [hd EXCEPT !.pc = "notify", !.should = ShouldReconnect(hd.exc)]
    /\ m_reconnecting' = IF ShouldReconnect(hd.exc) THEN TRUE ELSE m_reconnecting
    /\ UNCHANGED <<cfg, wsVars, unitVars, subVars, kaVars, coreVars, hsVars, m_reconnect_attempts, m_reconnect_cts,
                   rctsCanceled, nextRcts, sess, nextSess, taskVars, userVars, stopVars,
                   invVars, hist>>

\* the disconnected callback called in the reconnect branch and once more
\* after the branches
HdNotify_twice ==
    /\ hd.pc = "notify"
    /\ hd' = [hd EXCEPT !.fired = Min(@ + (IF hd.should THEN 2 ELSE 1), 2),
                        !.pc = IF hd.should THEN "ar" ELSE "ret"]
    /\ ar' = IF hd.should THEN [ar EXCEPT !["hd"] = [IdleAr EXCEPT !.pc = "begin"]]
             ELSE ar
    /\ m_reconnecting' = IF hd.should THEN m_reconnecting ELSE FALSE
    /\ m_reconnect_attempts' = IF hd.should THEN m_reconnect_attempts ELSE 0
    /\ hist' = [hist EXCEPT !.fireState = coreState, !.fireForeign = hd.foreign]
    /\ UNCHANGED <<cfg, wsVars, unitVars, subVars, kaVars, coreVars, hsVars, m_reconnect_cts, rctsCanceled, nextRcts, sess,
                   nextSess, tasks, nextTask, userVars, stopVars, invVars>>

\* the user's disconnected callback is called; a reconnect cycle starts
\* after it, otherwise the reconnect state is reset before it
HdNotify ==
    /\ hd.pc = "notify"
    /\ hd' = [hd EXCEPT !.fired = Min(@ + 1, 2), !.pc = IF hd.should THEN "ar" ELSE "ret"]
    /\ ar' = IF hd.should THEN [ar EXCEPT !["hd"] = [IdleAr EXCEPT !.pc = "begin"]]
             ELSE ar
    /\ m_reconnecting' = IF hd.should THEN m_reconnecting ELSE FALSE
    /\ m_reconnect_attempts' = IF hd.should THEN m_reconnect_attempts ELSE 0
    /\ hist' = [hist EXCEPT !.fireState = coreState, !.fireForeign = hd.foreign]
    /\ UNCHANGED <<cfg, wsVars, unitVars, subVars, kaVars, coreVars, hsVars, m_reconnect_cts, rctsCanceled, nextRcts, sess,
                   nextSess, tasks, nextTask, userVars, stopVars, invVars>>

\* handle_disconnection returns to the core, which then completes the stop
HdReturn ==
    /\ hd.pc = "ret"
    /\ fan' = fan \o hd.cbs
    /\ hd' = IdleHd
    /\ hist' = [hist EXCEPT !.fireState = "none", !.fireForeign = FALSE]
    /\ UNCHANGED <<cfg, wsVars, unitVars, subVars, kaVars, coreState, corePending, coreCancel, coreStopCbs, stopError, hsVars,
                   rcVars, sess, nextSess, taskVars, userVars, stopVars, invVars>>

\* ----------------------------------------------------- attempt_reconnect
\* get_next_reconnect_delay
get_next_reconnect_delay(delays, attempt) ==
    IF Len(delays) = 0 THEN 0
    ELSE IF attempt < Len(delays) THEN delays[attempt + 1]
    ELSE delays[Len(delays)]

\* the runner leaves attempt_reconnect
LeaveAr(r, tk) ==
    /\ ar' = [ar EXCEPT ![r] = IdleAr]
    /\ IF r = "hd"
       THEN /\ hd' = [hd EXCEPT !.pc = "ret"]
            /\ tasks' = tk
       ELSE /\ tasks' = [tk EXCEPT ![r].pc = "exit"]
            /\ UNCHANGED hd

\* attempt_reconnect up to the delay: the delay is looked up, the attempt
\* counter is incremented and a fresh cancellation source is created
ArBegin(r) ==
    /\ ar[r].pc = "begin"
    /\ nextTask <= cfg.tasks
    /\ ar' = [ar EXCEPT ![r].pc = "delay",
                        ![r].attempt = m_reconnect_attempts + 1,
                        ![r].cts = nextRcts]
    /\ m_reconnect_attempts' = m_reconnect_attempts + 1
    /\ m_reconnect_cts' = nextRcts
    /\ nextRcts' = nextRcts + 1
    /\ hist' = [hist EXCEPT
            !.consecFailed = IF hist.gaveUp THEN 0 ELSE @,
            !.gaveUp = FALSE,
            !.attemptNo = @ + 1,
            !.lastK = hist.attemptNo + 1,
            !.lastDelay = get_next_reconnect_delay(cfg.delays, m_reconnect_attempts)]
    /\ UNCHANGED <<cfg, wsVars, unitVars, subVars, kaVars, coreVars, hsVars, m_reconnecting, rctsCanceled, sess, nextSess, hd,
                   tasks, nextTask, userVars, stopVars, invVars>>

\* attempt_reconnect after the delay: return if the source was cancelled,
\* otherwise create the reconnect task.  The keepalive timer ticks once a
\* second: during a delay of a second or more it finds the connection not
\* connected and ends.
ArAfterDelay(r) ==
    /\ ar[r].pc = "delay"
    /\ IF ar[r].cts \in rctsCanceled
       THEN /\ LeaveAr(r, tasks)
            /\ UNCHANGED nextTask
       ELSE /\ LeaveAr(r, [tasks EXCEPT ![TaskNames[nextTask]] =
                    [pc |-> "check", attempt |-> ar[r].attempt, cts |-> ar[r].cts,
                     s |-> 0, own |-> (r = "hd")]])
            /\ nextTask' = nextTask + 1
    /\ ka' = IF get_next_reconnect_delay(cfg.delays, ar[r].attempt - 1) >= 1
                /\ coreState # "connected"
             THEN EndTimers(ka)
             ELSE ka
    /\ UNCHANGED <<cfg, wsVars, unitVars, subVars, coreVars, hsVars, rcVars, sess, nextSess, userVars, stopVars,
                   invVars, hist>>

\* ------------------------------------------------ reconnect_task_function
\* the checks before start: cancellation and connection state
RtCheck(t) ==
    /\ tasks[t].pc = "check"
    /\ tasks' = [tasks EXCEPT ![t].pc =
            IF tasks[t].cts \in rctsCanceled \/ coreState # "disconnected"
            THEN "exit" ELSE "start_check"]
    /\ UNCHANGED <<cfg, wsVars, unitVars, subVars, kaVars, coreVars, hsVars, rcVars, sess, nextSess, hd, ar, nextTask,
                   userVars, stopVars, invVars, hist>>

RtStartCheck(t) ==
    /\ tasks[t].pc = "start_check"
    /\ StartCheck(t)
    /\ tasks' = [tasks EXCEPT ![t].s = nextSess,
                              ![t].pc = IF coreState # "disconnected" THEN "wait"
                                        ELSE "start_core"]
    /\ UNCHANGED <<cfg, wsVars, unitVars, subVars, kaVars, coreVars, hd, ar, nextTask, userVars, stopVars, invVars, hist>>

RtStartCore(t) ==
    /\ tasks[t].pc = "start_core"
    /\ StartCore(tasks[t].s)
    /\ tasks' = [tasks EXCEPT ![t].pc = "wait"]
    /\ UNCHANGED <<cfg, wsVars, unitVars, subVars, kaVars, hsVars, rcVars, nextSess, ar, nextTask, userVars, stopVars,
                   invVars>>
    /\ hd' = IF hd.pc # "idle" /\ ~tasks[t].own /\ coreState = "disconnected"
             THEN [hd EXCEPT !.foreign = TRUE] ELSE hd

\* the task waited 60 s for the start it called and gives up: it exits
\* without touching the reconnect state
RtWaitTimeout(t) ==
    /\ tasks[t].pc = "wait"
    /\ sess[tasks[t].s].cb = 0
    /\ tasks' = [tasks EXCEPT ![t].pc = "exit"]
    /\ UNCHANGED <<cfg, wsVars, unitVars, subVars, kaVars, coreVars, hsVars, rcVars, sess, nextSess, hd, ar,
                   nextTask, userVars, stopVars, invVars, hist>>

\* start completed: success resets the reconnect state, failure retries
\* while the attempt number is below the maximum and gives up otherwise
RtDecide(t) ==
    /\ tasks[t].pc = "wait"
    /\ sess[tasks[t].s].cb >= 1
    /\ LET failed == sess[tasks[t].s].res # "ok"
           retry == failed /\ (cfg.max = -1 \/ tasks[t].attempt < cfg.max)
       IN  /\ tasks' = [tasks EXCEPT ![t].pc = IF retry THEN "ar" ELSE "exit"]
           /\ ar' = IF retry THEN [ar EXCEPT ![t] = [IdleAr EXCEPT !.pc = "begin"]] ELSE ar
           /\ m_reconnecting' = IF retry THEN m_reconnecting ELSE FALSE
           /\ m_reconnect_attempts' = IF retry THEN m_reconnect_attempts ELSE 0
           /\ hist' = [hist EXCEPT
                  !.consecFailed = IF failed THEN @ + 1 ELSE 0,
                  !.gaveUp = failed /\ ~retry,
                  !.attemptNo = IF retry THEN @ ELSE 0]
    /\ UNCHANGED <<cfg, wsVars, unitVars, subVars, kaVars, coreVars, hsVars, m_reconnect_cts, rctsCanceled, nextRcts, sess,
                   nextSess, hd, nextTask, userVars, stopVars, invVars>>

\* ------------------------------------------------------ invoke, completion
\* invoke(): the continuation is registered with the callback manager
InvRegister(u) ==
    /\ u = "u1" /\ upc[u] = "idle"
    /\ nextInv <= cfg.invokes
    /\ nextInv' = nextInv + 1
    /\ table' = table \cup {nextInv}
    /\ inv' = [inv EXCEPT ![nextInv].pc = "registered"]
    /\ uarg' = [uarg EXCEPT ![u] = nextInv]
    /\ upc' = [upc EXCEPT ![u] = "inv_send"]
    /\ UNCHANGED <<cfg, wsVars, unitVars, subVars, kaVars, coreVars, hsVars, rcVars, sess, nextSess, hd, taskVars, userStarts,
                   stopVars, hist>>

\* invoke_hub_method: the send and its callback; a failed send removes the
\* callback and delivers the error to the continuation
InvSend(u, e) ==
    /\ upc[u] = "inv_send"
    /\ e = "null" => coreState = "connected"
    /\ upc' = [upc EXCEPT ![u] = "idle"]
    /\ LET i == uarg[u] IN
       IF e = "null"
       THEN /\ inv' = [inv EXCEPT ![i].pc = "sent"]
            /\ UNCHANGED table
       ELSE /\ table' = table \ {i}
            /\ inv' = [inv EXCEPT ![i].pc = "failed", ![i].fired = Min(@ + 1, 2),
                                  ![i].how = "send"]
    /\ UNCHANGED <<cfg, wsVars, unitVars, subVars, kaVars, coreVars, hsVars, rcVars, sess, nextSess, hd, taskVars, uarg,
                   userStarts, stopVars, nextInv, hist>>

\* process_message, a completion frame: invoke_callback with remove = true
ProcessCompletion(i) ==
    /\ coreState = "connected" /\ m_handshakeReceived
    /\ inv[i].pc = "sent"
    /\ table' = table \ {i}
    /\ inv' = [inv EXCEPT ![i].pc = "completed",
                          ![i].fired = IF i \in table THEN Min(@ + 1, 2) ELSE @,
                          ![i].how = IF i \in table THEN "completion" ELSE @]
    /\ ka' = reset_server_timeout(ka)
    /\ UNCHANGED <<cfg, wsVars, unitVars, subVars, coreVars, hsVars, rcVars, sess, nextSess, hd, taskVars, userVars,
                   stopVars, nextInv, hist>>

\* ---------------------------------------------------------------- keepalive
\* a reconnect task whose start has completed is about to evaluate the outcome
OutcomePending == \E t \in Tasks : tasks[t].pc = "wait" /\ sess[tasks[t].s].cb >= 1

\* server_timeout passes on an established connection without a message from
\* the server: the clock is beyond m_nextActivationServerTimeout.  The time
\* is long enough for the start to have completed and for a reconnect task
\* that waited for it to have evaluated the outcome.
KaSilence ==
    /\ coreState = "connected" /\ m_handshakeReceived
    /\ ka.armed /\ ~ka.overdue
    /\ m_handshakeTask # 0 /\ sess[m_handshakeTask].cb >= 1
    /\ ~OutcomePending
    /\ ka' = [ka EXCEPT !.overdue = TRUE]
    /\ UNCHANGED <<cfg, wsVars, unitVars, subVars, coreVars, hsVars, rcVars, sess, nextSess, hd, taskVars,
                   userVars, stopVars, invVars, hist>>

\* a tick of the keepalive timer: the timer ends when the connection is not
\* connected; beyond the deadline the connection is stopped with the
\* server-timeout error (ticks that find nothing to do are left out)
KaTick ==
    /\ ka.armed
    /\ coreState = "connected" => ka.overdue
    /\ IF coreState # "connected"
       THEN /\ ka' = EndTimer(ka)
            /\ UNCHANGED coreVars
       ELSE /\ EnqueueStop([k |-> "ka", s |-> 0], "err")
            /\ UNCHANGED ka
    /\ UNCHANGED <<cfg, wsVars, unitVars, subVars, hsVars, rcVars, sess, nextSess, hd, taskVars, userVars,
                   stopVars, invVars, hist>>

\* ------------------------------------------------- on, server invocations
\* on(event_name, handler): the tests of the name and of the state
OnCheck(t) ==
    /\ onCall.pc = "idle"
    /\ onCalls < MaxOns
    /\ onCalls' = onCalls + 1
    /\ IF t = ""
       THEN /\ onResult' = "invalid_argument"
            /\ UNCHANGED onCall
       ELSE IF coreState # "disconnected"
       THEN /\ onResult' = "not_disconnected"
            /\ UNCHANGED onCall
       ELSE /\ onResult' = "none"
            /\ onCall' = [pc |-> "insert", target |-> t, h |-> onCalls + 1]
    /\ UNCHANGED <<cfg, wsVars, unitVars, kaVars, coreVars, hsVars, rcVars, sess, nextSess, hd, taskVars,
                   userVars, stopVars, invVars, hist, m_subscriptions, firstHandler,
                   dispatch>>

\* on() storing the handler although the target has one already
OnInsert_overwrite ==
    /\ onCall.pc = "insert"
    /\ onCall' = IdleOn
    /\ m_subscriptions' = [m_subscriptions EXCEPT ![onCall.target] = onCall.h]
    /\ onResult' = "ok"
    /\ firstHandler' = IF firstHandler[onCall.target] = 0
                       THEN [firstHandler EXCEPT ![onCall.target] = onCall.h]
                       ELSE firstHandler
    /\ UNCHANGED <<cfg, wsVars, unitVars, kaVars, coreVars, hsVars, rcVars, sess, nextSess, hd, taskVars,
                   userVars, stopVars, invVars, hist, onCalls, dispatch>>

\* on(): the test of the registry and the insertion
OnInsert ==
    /\ onCall.pc = "insert"
    /\ onCall' = IdleOn
    /\ IF m_subscriptions[onCall.target] # 0
       THEN /\ onResult' = "already_registered"
            /\ UNCHANGED <<m_subscriptions, firstHandler>>
       ELSE /\ onResult' = "ok"
            /\ m_subscriptions' = [m_subscriptions EXCEPT ![onCall.target] = onCall.h]
            /\ firstHandler' = [firstHandler EXCEPT ![onCall.target] = onCall.h]
    /\ UNCHANGED <<cfg, wsVars, unitVars, kaVars, coreVars, hsVars, rcVars, sess, nextSess, hd, taskVars,
                   userVars, stopVars, invVars, hist, onCalls, dispatch>>

\* process_message, an invocation frame: the server timeout is reset, the
\* handler of the target is looked up and called; an exception the handler
\* throws is caught by the catch clause of process_message, which logs it
\* and stops the connection with it
ProcessInvocation(t, throws) ==
    /\ coreState = "connected" /\ m_handshakeReceived
    /\ ka' = reset_server_timeout(ka)
    /\ IF m_subscriptions[t] # 0
       THEN /\ dispatch' = [target |-> t, h |-> m_subscriptions[t], threw |-> throws]
            /\ IF throws
               THEN EnqueueStop([k |-> "msg", s |-> 0], "err")
               ELSE UNCHANGED coreVars
       ELSE /\ ~throws
            /\ dispatch' = NoDispatch
            /\ UNCHANGED coreVars
    /\ UNCHANGED <<cfg, wsVars, unitVars, hsVars, rcVars, sess, nextSess, hd, taskVars, userVars, stopVars,
                   invVars, hist, m_subscriptions, onCall, onCalls, onResult, firstHandler>>

\* ------------------------------------------------------ the ping deadline
\* the outcomes of m_connection->send: the callback is called without an
\* exception, the callback is called with one, send itself throws
SendOutcomes == {"ok", "failed", "thrown"}

\* reset_send_ping: now plus the keepalive interval
reset_send_ping == now + KeepaliveTicks

\* the steady clock advances
ClockTick ==
    /\ now < MaxTime
    /\ now' = now + 1
    /\ UNCHANGED <<hubVars, wsVars, schVars, frVars, lkVars, m_nextActivationSendPing, lastSend>>

\* invoke_hub_method: the message is handed to m_connection->send and, when
\* send returns, reset_send_ping is called; an exception thrown by send
\* skips it
InvokeHubMethodSend(outcome) ==
    /\ lastSend' = [by |-> "invoke_hub_method", outcome |-> outcome]
    /\ m_nextActivationSendPing' =
           IF outcome = "thrown" THEN m_nextActivationSendPing ELSE reset_send_ping
    /\ UNCHANGED <<hubVars, wsVars, schVars, frVars, lkVars, now>>

\* send_ping of the keepalive: called by start_keepalive when the keepalive
\* starts and by the timer callback once now is past the deadline; the
\* callback of the send calls reset_send_ping when there is no exception
SendPing(outcome) ==
    /\ lastSend.by = "none" \/ now > m_nextActivationSendPing
    /\ lastSend' = [by |-> "send_ping", outcome |-> outcome]
    /\ m_nextActivationSendPing' =
           IF outcome = "ok" THEN reset_send_ping ELSE m_nextActivationSendPing
    /\ UNCHANGED <<hubVars, wsVars, schVars, frVars, lkVars, now>>

\* the messages process_message handles without a handler or a continuation:
\* what parse_messages returns for them
OtherKinds ==
    {"stream_invocation", "stream_item", "cancel_invocation", "ping", "close",
     "unknown", "null"}

\* the switch of process_message with a default branch that ignores the
\* message
Throws_unknownIgnored(kind) ==
    kind \in {"null", "stream_invocation", "cancel_invocation"}

\* the switch of process_message: a null message, stream_invocation,
\* cancel_invocation and the default branch throw std::runtime_error;
\* stream_item, ping and close break
Throws(kind) ==
    kind \in {"null", "stream_invocation", "cancel_invocation", "unknown"}

\* process_message with one of these messages: the server timeout is reset;
\* what the switch throws is caught by the catch clause, which stops the
\* connection with the exception
ProcessOther(kind) ==
    /\ coreState = "connected" /\ m_handshakeReceived
    /\ ka' = reset_server_timeout(ka)
    /\ dispatch' = [target |-> kind, h |-> 0, threw |-> Throws(kind)]
    /\ IF Throws(kind)
       THEN EnqueueStop([k |-> "violation", s |-> 0], "err")
       ELSE UNCHANGED coreVars
    /\ UNCHANGED <<cfg, wsVars, unitVars, hsVars, rcVars, sess, nextSess, hd, taskVars, userVars,
                   stopVars, invVars, hist, m_subscriptions, onCall, onCalls, onResult,
                   firstHandler>>

\* ------------------------------------------- websocket adapter: helpers
\* a continuation is invoked with an error / with a message
FireErr(cs, c) ==
    IF c = 0 THEN cs ELSE [cs EXCEPT ![c].fired = @ + 1, ![c].how = "err"]

FireMsg(cs, c) == [cs EXCEPT ![c].fired = @ + 1, ![c].how = "msg"]

\* a continuation leaves the adapter without having been invoked
Lose(cs, c, why) ==
    IF c # 0 /\ cs[c].fired = 0 THEN [cs EXCEPT ![c].lost = why] ELSE cs

\* the executor task that holds continuation c, at position pc
Exec(c, pc) == [cb |-> c, pc |-> pc]

\* the payload of a delivery: the message taken out of the queue together
\* with continuation c
Payload(cs, c, m) == [cs EXCEPT ![c].msg = m]

\* schedule_callback_delivery: one permit of the counting semaphore
Give(n) == Min(n + 1, cfg.wsQueue)

\* receive that stores the continuation and leaves the delivery task asleep
receive_noWake(w, c) == [w EXCEPT !.pending = c]

\* receive(callback): the continuation is stored whatever the slot holds, and
\* the delivery task is woken when a message is queued
receive(w, c) ==
    [w EXCEPT !.pending = c,
              !.sem = IF w.queue # <<>> THEN Give(@) ELSE @]

\* the receive loop of the connection core hands a fresh continuation to
\* receive; the first one after an unreported disconnect is remembered
LoopNext(n) ==
    [n EXCEPT !.nextCont = @ + 1,
              !.owedCont = IF n.owed /\ @ = 0 THEN n.nextCont ELSE @]

\* the event handler takes the pending continuation and invokes it with an
\* error; with an empty slot nothing is recorded for a later receive
NotifyPending ==
    /\ conts' = FireErr(conts, ws.pending)
    /\ wsn' = [wsn EXCEPT !.owed = @ \/ (ws.pending = 0 /\ wsn.loop = "on")]

\* ------------------------------------------------- websocket adapter: start
\* start up to the wait for the connection: an existing client is stopped
\* first, the queue and the pending-receive slot are cleared, the client is
\* created and started (failed: esp_websocket_client_start reports an error)
WsStart(failed) ==
    /\ wsCall.op = "none" /\ ~wsn.active /\ wsn.loop # "due"
    /\ wsn.starts < cfg.wsStarts
    /\ LET held == IF ws.client THEN ws.pending ELSE 0
           dropped == IF ws.client THEN 0 ELSE ws.pending
       IN  /\ conts' = Lose(FireErr(conts, held), dropped, "cleared")
           /\ ws' = [ws EXCEPT !.stopping = FALSE,
                               !.running = IF ws.client THEN FALSE ELSE @,
                               !.connected = IF ws.client THEN FALSE ELSE @,
                               !.bitC = FALSE, !.bitD = FALSE,
                               !.queue = <<>>, !.pending = 0,
                               !.client = ~failed]
    /\ sock' = IF failed THEN "none" ELSE "connecting"
    /\ wsCall' = IF failed THEN IdleCall ELSE [op |-> "start", pc |-> "wait"]
    /\ wsn' = [wsn EXCEPT !.starts = @ + 1, !.stopDone = FALSE,
                          !.owed = FALSE, !.owedCont = 0]
    /\ UNCHANGED <<hubVars, unitVars, dt, ex>>

\* start after the wait: connected starts the delivery task and reports
\* success; a disconnect or the connection timeout reports an error and
\* leaves the client in place
WsStartWait ==
    /\ wsCall = [op |-> "start", pc |-> "wait"]
    /\ IF ws.bitC
       THEN /\ ws' = [ws EXCEPT !.running = TRUE]
            /\ dt' = IF dt.pc = "exited" THEN IdleDt ELSE dt
            /\ wsn' = [wsn EXCEPT !.active = TRUE, !.loop = "due"]
       ELSE UNCHANGED <<ws, dt, wsn>>
    /\ wsCall' = IdleCall
    /\ UNCHANGED <<hubVars, unitVars, sock, ex, conts>>

\* the connection core installs its receive loop after a successful start
LoopBegin ==
    /\ wsn.loop = "due"
    /\ ws' = receive(ws, wsn.nextCont)
    /\ conts' = Lose(conts, ws.pending, "overwritten")
    /\ wsn' = [LoopNext(wsn) EXCEPT !.loop = "on"]
    /\ UNCHANGED <<hubVars, unitVars, sock, wsCall, dt, ex>>

\* -------------------------------------------------- websocket adapter: stop
\* stop: m_is_stopping is set and the delivery task is told to end; stop
\* waits at most a second for it
WsStopBegin ==
    /\ wsCall.op = "none" /\ wsn.active /\ wsn.loop = "on"
    /\ wsn.stops < cfg.wsStops
    /\ ws' = [ws EXCEPT !.stopping = TRUE, !.running = FALSE, !.sem = Give(@)]
    /\ wsCall' = [op |-> "stop", pc |-> "take"]
    /\ wsn' = [wsn EXCEPT !.stops = @ + 1]
    /\ UNCHANGED <<hubVars, unitVars, sock, dt, ex, conts>>

\* stop takes the pending continuation under both locks and invokes it with
\* the stopped error
WsStopTake ==
    /\ wsCall = [op |-> "stop", pc |-> "take"]
    /\ conts' = FireErr(conts, ws.pending)
    /\ ws' = [ws EXCEPT !.pending = 0]
    /\ wsCall' = [op |-> "stop", pc |-> "close"]
    /\ UNCHANGED <<hubVars, unitVars, sock, dt, ex, wsn>>

\* stop closes and destroys the client and reports success: the connection
\* core becomes disconnected and the callback of the user's stop fires with
\* success
WsStopEnd ==
    /\ wsCall = [op |-> "stop", pc |-> "close"]
    /\ ws' = [ws EXCEPT !.client = FALSE, !.connected = FALSE, !.bitC = FALSE]
    /\ sock' = "none"
    /\ wsCall' = IdleCall
    /\ wsn' = [wsn EXCEPT !.active = FALSE, !.stopDone = TRUE]
    /\ UNCHANGED <<hubVars, unitVars, dt, ex, conts>>

\* -------------------------------------------- websocket adapter: events
\* WEBSOCKET_EVENT_CONNECTED
handle_connected ==
    /\ ws.client /\ sock = "connecting"
    /\ sock' = "open"
    /\ ws' = [ws EXCEPT !.connected = TRUE, !.bitC = TRUE]
    /\ UNCHANGED <<hubVars, unitVars, wsCall, dt, ex, conts, wsn>>

\* WEBSOCKET_EVENT_DATA with one complete message: it is queued, the oldest
\* one dropped when the queue is full, and the delivery task is woken
handle_data ==
    /\ ws.client /\ sock = "open"
    /\ wsn.msgs < cfg.wsMsgs
    /\ LET m == wsn.msgs + 1
       IN  ws' = [ws EXCEPT
                !.queue = IF Len(@) < cfg.wsQueue
                          THEN Append(@, m) ELSE Append(Tail(@), m),
                !.sem = Give(@)]
    /\ wsn' = [wsn EXCEPT !.msgs = @ + 1]
    /\ UNCHANGED <<hubVars, unitVars, sock, wsCall, dt, ex, conts>>

\* WEBSOCKET_EVENT_DISCONNECTED
handle_disconnected ==
    /\ ws.client /\ sock \in {"connecting", "open", "failed"}
    /\ sock' = "down"
    /\ IF ws.stopping
       THEN /\ ws' = [ws EXCEPT !.connected = FALSE, !.bitD = TRUE, !.bitC = FALSE]
            /\ UNCHANGED <<conts, wsn>>
       ELSE /\ ws' = [ws EXCEPT !.connected = FALSE, !.bitD = TRUE, !.bitC = FALSE,
                                !.pending = 0]
            /\ NotifyPending
    /\ UNCHANGED <<hubVars, unitVars, wsCall, dt, ex>>

\* WEBSOCKET_EVENT_ERROR
handle_error ==
    /\ ws.client /\ sock = "open"
    /\ sock' = "failed"
    /\ IF ws.stopping
       THEN UNCHANGED <<ws, conts, wsn>>
       ELSE /\ ws' = [ws EXCEPT !.pending = 0]
            /\ NotifyPending
    /\ UNCHANGED <<hubVars, unitVars, wsCall, dt, ex>>

\* ----------------------------------------- websocket adapter: delivery task
\* callback_processor_task waiting for a permit
DtWait ==
    /\ dt.pc = "wait"
    /\ ~ws.running \/ ws.sem > 0
    /\ IF ~ws.running
       THEN /\ dt' = [dt EXCEPT !.pc = "exited"]
            /\ UNCHANGED ws
       ELSE /\ dt' = [dt EXCEPT !.pc = "loop"]
            /\ ws' = [ws EXCEPT !.sem = @ - 1]
    /\ UNCHANGED <<hubVars, unitVars, sock, wsCall, ex, conts, wsn>>

\* callback_processor_task in its inner loop: deliver when a message and a
\* continuation are there; without a continuation it idles (2 s at most) and
\* goes back to waiting, as it does at once without a message
DtLoop ==
    /\ dt.pc = "loop"
    /\ dt' = [dt EXCEPT !.pc =
            IF ~ws.running THEN "exited"
            ELSE IF ws.queue # <<>> /\ ws.pending # 0 THEN "deliver"
            ELSE "wait"]
    /\ UNCHANGED <<hubVars, unitVars, ws, sock, wsCall, ex, conts, wsn>>

\* the same loop read by read: has_messages is read under the queue mutex
DtCheckQueue ==
    /\ dt.pc = "loop"
    /\ dt' = [dt EXCEPT !.pc =
            IF ~ws.running THEN "exited"
            ELSE IF ws.queue # <<>> THEN "has_messages" ELSE "no_messages"]
    /\ UNCHANGED <<hubVars, unitVars, ws, sock, wsCall, ex, conts, wsn>>

\* has_callback is read under the callback mutex, after the queue mutex was
\* released: with both the task delivers, with a message alone it idles for
\* another round or, after MAX_IDLE_ROUNDS rounds (timedOut), leaves the
\* loop, without a message it leaves the loop at once
DtCheckCallback(timedOut) ==
    /\ dt.pc \in {"has_messages", "no_messages"}
    /\ dt' = [dt EXCEPT !.pc =
            IF dt.pc = "no_messages" THEN "wait"
            ELSE IF ws.pending # 0 THEN "deliver"
            ELSE IF timedOut THEN "wait" ELSE "loop"]
    /\ UNCHANGED <<hubVars, unitVars, ws, sock, wsCall, ex, conts, wsn>>

\* try_deliver_message that takes the message and leaves the continuation
\* in the slot
DtDeliver_keepSlot ==
    /\ dt.pc = "deliver"
    /\ IF ws.pending = 0 \/ ws.queue = <<>>
       THEN /\ dt' = [dt EXCEPT !.pc = "loop"]
            /\ UNCHANGED <<ws, conts>>
       ELSE /\ dt' = [pc |-> "taken", cb |-> ws.pending, msg |-> Head(ws.queue)]
            /\ ws' = [ws EXCEPT !.queue = Tail(@)]
            /\ conts' = Payload(conts, ws.pending, Head(ws.queue))
    /\ UNCHANGED <<hubVars, unitVars, sock, wsCall, ex, wsn>>

\* try_deliver_message, under both locks: the front message and the pending
\* continuation are taken out
DtDeliver ==
    /\ dt.pc = "deliver"
    /\ IF ws.pending = 0 \/ ws.queue = <<>>
       THEN /\ dt' = [dt EXCEPT !.pc = "loop"]
            /\ UNCHANGED <<ws, conts>>
       ELSE /\ dt' = [pc |-> "taken", cb |-> ws.pending, msg |-> Head(ws.queue)]
            /\ ws' = [ws EXCEPT !.queue = Tail(@), !.pending = 0]
            /\ conts' = Payload(conts, ws.pending, Head(ws.queue))
    /\ UNCHANGED <<hubVars, unitVars, sock, wsCall, ex, wsn>>

\* try_deliver_message got a slot of the limiter: an executor task is
\* created for the payload; when the task cannot be created (created is
\* false) the continuation is invoked on the delivery task
DtSpawn(created) ==
    /\ dt.pc = "taken" /\ ws.limiter > 0
    /\ ws' = [ws EXCEPT !.limiter = @ - 1]
    /\ IF created
       THEN /\ ex' = ex \cup {Exec(dt.cb, "call")}
            /\ dt' = [pc |-> "loop", cb |-> 0, msg |-> 0]
       ELSE /\ dt' = [dt EXCEPT !.pc = "inline"]
            /\ UNCHANGED ex
    /\ UNCHANGED <<hubVars, unitVars, sock, wsCall, conts, wsn>>

\* the continuation runs on the delivery task: the message is handed to the
\* receive loop, which passes it to the hub
DtInlineCall ==
    /\ dt.pc = "inline"
    /\ conts' = FireMsg(conts, dt.cb)
    /\ wsn' = [wsn EXCEPT !.late = @ \/ wsn.stopDone]
    /\ dt' = [dt EXCEPT !.pc = "inline_receive"]
    /\ UNCHANGED <<hubVars, unitVars, ws, sock, wsCall, ex>>

\* the receive loop calls receive again, the continuation returns and the
\* limiter slot is given back
DtInlineReceive ==
    /\ dt.pc = "inline_receive"
    /\ ws' = [receive(ws, wsn.nextCont) EXCEPT !.limiter = @ + 1]
    /\ conts' = Lose(conts, ws.pending, "overwritten")
    /\ wsn' = LoopNext(wsn)
    /\ dt' = [pc |-> "loop", cb |-> 0, msg |-> 0]
    /\ UNCHANGED <<hubVars, unitVars, sock, wsCall, ex>>

\* try_deliver_message waited 500 ms for a slot of the limiter in vain: the
\* message goes back to the front of the queue, the continuation back into
\* the slot if that is empty
DtRequeue ==
    /\ dt.pc = "taken" /\ ws.limiter = 0
    /\ ws' = [ws EXCEPT !.queue = <<dt.msg>> \o @,
                        !.pending = IF @ = 0 THEN dt.cb ELSE @]
    /\ conts' = IF ws.pending = 0 THEN Payload(conts, dt.cb, 0)
                 ELSE Lose(Payload(conts, dt.cb, 0), dt.cb, "discarded")
    /\ dt' = [pc |-> "loop", cb |-> 0, msg |-> 0]
    /\ UNCHANGED <<hubVars, unitVars, sock, wsCall, ex, wsn>>

\* ---------------------------------------- websocket adapter: executor tasks
\* the executor task invokes the continuation with its message: the receive
\* loop passes the message to the hub
ExecCall(c) ==
    /\ Exec(c, "call") \in ex
    /\ conts' = FireMsg(conts, c)
    /\ wsn' = [wsn EXCEPT !.late = @ \/ wsn.stopDone]
    /\ ex' = (ex \ {Exec(c, "call")}) \cup {Exec(c, "receive")}
    /\ UNCHANGED <<hubVars, unitVars, ws, sock, wsCall, dt>>

\* the receive loop, still inside the continuation, calls receive again
ExecReceive(c) ==
    /\ Exec(c, "receive") \in ex
    /\ ws' = receive(ws, wsn.nextCont)
    /\ conts' = Lose(conts, ws.pending, "overwritten")
    /\ wsn' = LoopNext(wsn)
    /\ ex' = (ex \ {Exec(c, "receive")}) \cup {Exec(c, "give")}
    /\ UNCHANGED <<hubVars, unitVars, sock, wsCall, dt>>

\* an executor task that deletes itself without giving its slot back
ExecGive_keepSlot(c) ==
    /\ Exec(c, "give") \in ex
    /\ ex' = ex \ {Exec(c, "give")}
    /\ UNCHANGED <<hubVars, unitVars, ws, sock, wsCall, dt, conts, wsn>>

\* the continuation returned: the executor task gives its limiter slot back
\* and deletes itself
ExecGive(c) ==
    /\ Exec(c, "give") \in ex
    /\ ws' = [ws EXCEPT !.limiter = @ + 1]
    /\ ex' = ex \ {Exec(c, "give")}
    /\ UNCHANGED <<hubVars, unitVars, sock, wsCall, dt, conts, wsn>>

\* ------------------------------------- websocket adapter: frame reassembly
\* the bytes of a stream: two payload bytes and the record separator 0x1E
RS == "\\x1e"
Bytes == {"a", "b", RS}

\* std::string::find: position of the first separator (0: npos)
find(buf) ==
    IF \E i \in 1..Len(buf) : buf[i] = RS
    THEN CHOOSE i \in 1..Len(buf) : buf[i] = RS /\ \A j \in 1..(i - 1) : buf[j] # RS
    ELSE 0

\* the while loop of handle_data: each message up to a separator is cut off
\* the front of the buffer and pushed; what follows the last separator stays
RECURSIVE CutMessages(_)
CutMessages(buf) ==
    LET separator_pos == find(buf)
    IN  IF separator_pos = 0
        THEN [buffer |-> buf, msgs |-> <<>>]
        ELSE LET message == SubSeq(buf, 1, separator_pos - 1)
                 rest == CutMessages(SubSeq(buf, separator_pos + 1, Len(buf)))
             IN  [buffer |-> rest.buffer, msgs |-> <<message>> \o rest.msgs]

\* handle_data that forgets the bytes after the last separator
handle_data_bytes_dropPartial(buf, data) ==
    IF Len(data) <= 0
    THEN [buffer |-> buf, msgs |-> <<>>]
    ELSE [CutMessages(buf \o data) EXCEPT !.buffer = <<>>]

\* handle_data on the bytes of one text frame event: an event without data
\* is ignored, the data is appended to the receive buffer and the complete
\* messages are cut out
handle_data_bytes(buf, data) ==
    IF Len(data) <= 0
    THEN [buffer |-> buf, msgs |-> <<>>]
    ELSE CutMessages(buf \o data)

\* WEBSOCKET_EVENT_DATA, text frame, with the next piece of the stream
FrameData ==
    /\ nextEvent <= Len(split)
    /\ LET r == handle_data_bytes(m_receive_buffer, split[nextEvent])
       IN  /\ m_receive_buffer' = r.buffer
           /\ enqueued' = enqueued \o r.msgs
    /\ nextEvent' = nextEvent + 1
    /\ UNCHANGED <<hubVars, wsVars, schVars, lkVars, pingVars, split, connStart>>

\* start on the adapter that has been connected before (the connection was
\* lost or stop was called; start stops a client that still exists): the
\* message queue is emptied; the data events that follow are those of the
\* new connection
StartAgain ==
    /\ connStart < nextEvent /\ nextEvent <= Len(split)
    /\ enqueued' = <<>>
    /\ connStart' = nextEvent
    /\ UNCHANGED <<hubVars, wsVars, schVars, lkVars, pingVars, m_receive_buffer, split, nextEvent>>

\* ------------------------------------------- websocket adapter: the locks
Lock(l) == [op |-> "lock", l |-> l]
Unlock(l) == [op |-> "unlock", l |-> l]

\* two lock_guards in one block: m_queue_mutex, then m_callback_mutex, and
\* the release in reverse order at the end of the block
Nested ==
    <<Lock("m_queue_mutex"), Lock("m_callback_mutex"),
      Unlock("m_callback_mutex"), Unlock("m_queue_mutex")>>

\* two blocks with one lock_guard each: m_queue_mutex, then m_callback_mutex
OneByOne ==
    <<Lock("m_queue_mutex"), Unlock("m_queue_mutex"),
      Lock("m_callback_mutex"), Unlock("m_callback_mutex")>>

\* receive with the two lock_guards the other way round
ReceiveLocks_callbackFirst ==
    <<Lock("m_callback_mutex"), Lock("m_queue_mutex"),
      Unlock("m_queue_mutex"), Unlock("m_callback_mutex")>>

\* receive: has_message is read under m_queue_mutex and the callback stored
\* under m_callback_mutex inside the same block
ReceiveLocks == Nested

\* the continuation taken out of the slot is invoked
Invoke == [op |-> "invoke", l |-> "none"]

\* stop that invokes the pending continuation inside the locked block
StopLocks_invokeInside ==
    <<Lock("m_queue_mutex"), Lock("m_callback_mutex"), Invoke,
      Unlock("m_callback_mutex"), Unlock("m_queue_mutex")>>

\* stop: the pending continuation is taken under both mutexes and invoked
\* after the block
StopLocks == Nested \o <<Invoke>>

\* handle_disconnected and handle_error: the same shape as stop
HandlerLocks == Nested \o <<Invoke>>

\* try_deliver_message when the continuation runs on the delivery task
\* (the executor task could not be created)
InlineLocks == Nested \o <<Invoke>>

\* the locked regions of each task: handle_disconnected, handle_error and
\* handle_data for the event handler; the check of callback_processor_task,
\* try_deliver_message (the payload going to an executor task, or run on
\* the delivery task) and its re-queue path for the delivery task; the first
\* receive of the receive loop and the continuation an executor task runs
\* for the task named receive; stop and start for their caller
LockPaths(t) ==
    CASE t = "event" ->
            {HandlerLocks, Nested, <<Lock("m_queue_mutex"), Unlock("m_queue_mutex")>>}
      [] t = "delivery" -> {OneByOne, Nested, InlineLocks}
      [] t = "receive" -> {ReceiveLocks, <<Invoke>>}
      [] t = "control" -> {StopLocks, Nested, OneByOne}

\* task t enters one of its locked regions
LockBegin(t, path) ==
    /\ lockPath[t] = <<>>
    /\ lockPath' = [lockPath EXCEPT ![t] = path]
    /\ UNCHANGED <<hubVars, wsVars, schVars, frVars, pingVars, holder>>

\* std::lock_guard: the constructor blocks until the mutex is free
LockAcquire(t) ==
    /\ lockPath[t] # <<>> /\ Head(lockPath[t]).op = "lock"
    /\ holder[Head(lockPath[t]).l] = "free"
    /\ holder' = [holder EXCEPT ![Head(lockPath[t]).l] = t]
    /\ lockPath' = [lockPath EXCEPT ![t] = Tail(@)]
    /\ UNCHANGED <<hubVars, wsVars, schVars, frVars, pingVars>>

\* the continuation runs on task t: the receive loop behind it calls receive
\* again (reenters) or returns
LockInvoke(t, reenters) ==
    /\ lockPath[t] # <<>> /\ Head(lockPath[t]) = Invoke
    /\ lockPath' = [lockPath EXCEPT ![t] =
                        IF reenters THEN ReceiveLocks \o Tail(@) ELSE Tail(@)]
    /\ UNCHANGED <<hubVars, wsVars, schVars, frVars, pingVars, holder>>

\* the destructor of the lock_guard at the end of its block
LockRelease(t) ==
    /\ lockPath[t] # <<>> /\ Head(lockPath[t]).op = "unlock"
    /\ holder' = [holder EXCEPT ![Head(lockPath[t]).l] = "free"]
    /\ lockPath' = [lockPath EXCEPT ![t] = Tail(@)]
    /\ UNCHANGED <<hubVars, wsVars, schVars, frVars, pingVars>>

\* ---------------------------------------------------------- specifications
HandshakeStep ==
    \/ \E s \in Sessions, e \in {"null", "err"} : SendCb(s, e)
    \/ \E s \in Sessions : TimerTick(s)
    \/ \E s \in Sessions : TimerFire(s)
    \/ \E s \in Sessions : CtsCheck(s)
    \/ \E s \in Sessions, p \in Producers : HHGuard(s, p)
    \/ \E s \in Sessions, p \in Producers : HHWait(s, p)
    \/ \E s \in Sessions, p \in Producers : HHStop(s, p)
    \/ \E r \in {"ok", "err"} : ProcessHandshake(r)

CoreStep ==
    \/ CoreStartSucceeds
    \/ CoreStartFails
    \/ CoreStopCompletes
    \/ TransportError
    \/ FanDeliver

StartStep ==
    \/ \E u \in Users : UserStartCheck(u)
    \/ \E u \in Users : UserStartCore(u)

StopStep ==
    \/ \E u \in Users : StopReconn(u)
    \/ \E u \in Users : StopCheck(u)
    \/ \E u \in Users : StopPush(u)
    \/ \E u \in Users : StopCore(u)

HandlerStep ==
    \/ HdSetTask
    \/ HdCancel
    \/ HdClear
    \/ HdDecide
    \/ HdNotify
    \/ HdReturn

ReconnectStep ==
    \/ \E r \in Runners : ArBegin(r)
    \/ \E r \in Runners : ArAfterDelay(r)
    \/ \E t \in Tasks : RtCheck(t)
    \/ \E t \in Tasks : RtStartCheck(t)
    \/ \E t \in Tasks : RtStartCore(t)
    \/ \E t \in Tasks : RtDecide(t)

InvokeStep ==
    \/ \E u \in Users : InvRegister(u)
    \/ \E u \in Users, e \in {"null", "err"} : InvSend(u, e)
    \/ \E i \in 1..MaxInvokes : ProcessCompletion(i)

\* ------------------------------------------------------------- scheduler
restVars == <<hubVars, wsVars, frVars, lkVars, pingVars>>

\* a work item of a caller and the lambda of timer_internal as list entries:
\* the time point now + delay is kept as the seconds left until it
Item(i, delay) == [id |-> i, due |-> delay, duration |-> 0]
TimerItem(d, delay) == [id |-> 0, due |-> delay, duration |-> d]

\* curr_time = now(): the entries whose time point is not after curr_time;
\* no entry is added while the dispatcher holds the mutex
NotAfterNow(cbs) == {cbs[k].id : k \in {j \in 1..Len(cbs) : cbs[j].due = 0}}

\* it->second <= curr_time
Ready(item, ready) == item.id \in ready

\* thread::is_free
is_free(w) == ~threads[w].m_busy

\* m_callbacks.erase(it)
erase(cbs, it) == SubSeq(cbs, 1, it - 1) \o SubSeq(cbs, it + 1, Len(cbs))

\* timer_internal that passes the duration on as it got it
timer_internal_sameDuration(duration) == TimerItem(duration, 1)

\* timer_internal: the duration grows by one tick and the lambda is
\* scheduled one tick from now
timer_internal(duration) == TimerItem(duration + 1, 1)

\* schedule(cb, delay) called with work item i: the pair is appended under
\* the mutex (the items are passed in the order of their numbers)
Schedule(i, delay) ==
    /\ work[i].state = "new"
    /\ \A j \in 1..(i - 1) : work[j].state # "new"
    /\ ~sch.m_closed /\ sch.lock = "free"
    /\ m_callbacks' = Append(m_callbacks, Item(i, delay))
    /\ work' = [work EXCEPT ![i].state = "scheduled"]
    /\ UNCHANGED <<restVars, sch, disp, threads, tmr, schObs>>

\* timer(scheduler, func)
TimerArm ==
    /\ ~tmr.armed
    /\ ~sch.m_closed /\ sch.lock = "free"
    /\ m_callbacks' = Append(m_callbacks, timer_internal(0))
    /\ tmr' = [tmr EXCEPT !.armed = TRUE]
    /\ UNCHANGED <<restVars, sch, disp, threads, work, schObs>>

\* the lambda of the timer holds a reference to the scheduler until the
\* predicate has returned true
TimerLive ==
    tmr.armed /\ (tmr.calls = <<>> \/ ~tmr.calls[Len(tmr.calls)].result)

\* the wait of the destructor for the dispatcher: m_scheduler_task_handle
\* is set by xTaskCreate and by nothing else, so every poll is made
ShutdownWait == (SHUTDOWN_RETRY_COUNT * SHUTDOWN_RETRY_DELAY_MS) \div 1000

\* ~signalr_default_scheduler, run once nothing refers to the scheduler:
\* close(), then the wait begins
Close ==
    /\ ~sch.m_closed /\ sch.lock = "free"
    /\ ~TimerLive
    /\ sch' = [sch EXCEPT !.m_closed = TRUE, !.wait = ShutdownWait]
    /\ UNCHANGED <<restVars, m_callbacks, disp, threads, work, tmr, schObs>>

\* what a dispatcher that has not ended makes of the mutex, the semaphore
\* and the list once they are deleted: it goes on as if they were intact,
\* or it never comes back from its next call
UseAfterFree == {"intact", "fault"}

\* the end of the destructor: the wait is over, the mutex and the semaphore
\* are deleted and the internals go with the last reference to them, the
\* list and its entries included
Destroy(outcome) ==
    /\ sch.m_closed /\ sch.wait = 0 /\ ~sch.destroyed
    /\ disp.pc = "exited" => outcome = "intact"
    /\ sch' = [sch EXCEPT !.destroyed = TRUE]
    /\ IF outcome = "fault"
       THEN /\ disp' = [disp EXCEPT !.pc = "fault"]
            /\ m_callbacks' = <<>>
       ELSE UNCHANGED <<disp, m_callbacks>>
    /\ UNCHANGED <<restVars, threads, work, tmr, schObs>>

\* a second passes: every time point that lies ahead is one second nearer
\* (the seconds that change nothing are left out)
Later(item) == [item EXCEPT !.due = Max(@ - 1, 0)]

SchedTick ==
    /\ \/ \E k \in 1..Len(m_callbacks) : m_callbacks[k].due > 0
       \/ \E w \in Workers : threads[w].m_callback.due > 0 \/ threads[w].cb.due > 0
       \/ sch.wait > 0
    /\ sch' = [sch EXCEPT !.wait = Max(@ - 1, 0)]
    /\ m_callbacks' = [k \in 1..Len(m_callbacks) |-> Later(m_callbacks[k])]
    /\ threads' = [w \in Workers |->
                      [threads[w] EXCEPT !.m_callback = Later(@), !.cb = Later(@)]]
    /\ UNCHANGED <<restVars, disp, work, tmr, schObs>>

\* scheduler_task_function: the wait of 15 ms at most is over; under the
\* mutex the task ends when the scheduler is closed and the list is empty,
\* otherwise it reads the clock and begins to walk the list (the rounds
\* that find the list empty are left out)
DispWake ==
    /\ disp.pc = "sleep" /\ sch.lock = "free"
    /\ sch.m_closed \/ m_callbacks # <<>>
    /\ IF sch.m_closed /\ m_callbacks = <<>>
       THEN /\ disp' = [disp EXCEPT !.pc = "exited"]
            /\ UNCHANGED sch
       ELSE /\ disp' = [pc |-> "scan", it |-> 1, ready |-> NotAfterNow(m_callbacks),
                        w |-> 0]
            /\ sch' = [sch EXCEPT !.lock = "dispatcher"]
    /\ UNCHANGED <<restVars, m_callbacks, threads, work, tmr, schObs>>

\* one entry of the list: an entry that is ready goes to the first free
\* worker; without a free worker the walk ends, as it does at the end of
\* the list, and the mutex is released
DispScan ==
    /\ disp.pc = "scan"
    /\ IF disp.it > Len(m_callbacks)
       THEN /\ disp' = [disp EXCEPT !.pc = "sleep", !.ready = {}]
            /\ sch' = [sch EXCEPT !.lock = "free"]
       ELSE LET item == m_callbacks[disp.it]
            IN  IF ~Ready(item, disp.ready)
                THEN /\ disp' = [disp EXCEPT !.it = @ + 1]
                     /\ UNCHANGED sch
                ELSE IF \E w \in Workers : is_free(w)
                THEN /\ disp' = [disp EXCEPT !.pc = "add",
                            !.w = CHOOSE w \in Workers :
                                      is_free(w) /\ \A v \in 1..(w - 1) : ~is_free(v)]
                     /\ UNCHANGED sch
                ELSE /\ disp' = [disp EXCEPT !.pc = "sleep", !.ready = {}]
                     /\ sch' = [sch EXCEPT !.lock = "free"]
    /\ UNCHANGED <<restVars, m_callbacks, threads, work, tmr, schObs>>

\* thread::add: the two asserts, then the callback is stored and the worker
\* marked busy
DispAdd ==
    /\ disp.pc = "add"
    /\ schObs' = [notClosed |-> schObs.notClosed /\ ~threads[disp.w].m_closed,
                  notBusy |-> schObs.notBusy /\ ~threads[disp.w].m_busy]
    /\ threads' = [threads EXCEPT ![disp.w].m_callback = m_callbacks[disp.it],
                                  ![disp.w].m_busy = TRUE]
    /\ disp' = [disp EXCEPT !.pc = "start"]
    /\ UNCHANGED <<restVars, m_callbacks, sch, work, tmr>>

\* thread::start and the erase of the entry
DispStart ==
    /\ disp.pc = "start"
    /\ threads' = [threads EXCEPT ![disp.w].sem = 1]
    /\ m_callbacks' = erase(m_callbacks, disp.it)
    /\ disp' = [disp EXCEPT !.pc = "scan", !.w = 0]
    /\ UNCHANGED <<restVars, sch, work, tmr, schObs>>

\* thread::task_function: the worker is woken
WkTake(w) ==
    /\ threads[w].pc = "wait" /\ threads[w].sem = 1
    /\ threads' = [threads EXCEPT ![w].sem = 0, ![w].pc = "lock"]
    /\ UNCHANGED <<restVars, m_callbacks, sch, disp, work, tmr, schObs>>

\* the worker that marks itself free as soon as it has taken the callback
WkGet_clearsBusy(w) ==
    /\ threads[w].pc = "lock"
    /\ threads' = [threads EXCEPT
            ![w].pc = IF threads[w].m_closed /\ threads[w].m_callback = NoItem
                      THEN "exited" ELSE "run",
            ![w].cb = threads[w].m_callback,
            ![w].m_callback = NoItem,
            ![w].m_busy = FALSE]
    /\ UNCHANGED <<restVars, m_callbacks, sch, disp, work, tmr, schObs>>

\* under the mutex of the worker: it ends when it is closed and has no
\* callback, otherwise it takes the callback out
WkGet(w) ==
    /\ threads[w].pc = "lock"
    /\ threads' = [threads EXCEPT
            ![w].pc = IF threads[w].m_closed /\ threads[w].m_callback = NoItem
                      THEN "exited" ELSE "run",
            ![w].cb = threads[w].m_callback,
            ![w].m_callback = NoItem]
    /\ UNCHANGED <<restVars, m_callbacks, sch, disp, work, tmr, schObs>>

\* cb(): the work item of a caller is executed
WkRun(w) ==
    /\ threads[w].pc = "run" /\ threads[w].cb.id # 0
    /\ threads' = [threads EXCEPT ![w].pc = "done"]
    /\ work' = IF threads[w].cb.id \in Items
               THEN [work EXCEPT ![threads[w].cb.id].runs = @ + 1,
                                 ![threads[w].cb.id].early =
                                     @ \/ threads[w].cb.due > 0]
               ELSE work
    /\ UNCHANGED <<restVars, m_callbacks, sch, disp, tmr, schObs>>

\* cb(): the lambda of the timer calls the predicate with its duration;
\* the predicate returns false (result) MaxTimerCalls - 1 times at most
WkTimer(w, result) ==
    /\ threads[w].pc = "run" /\ threads[w].cb.id = 0
    /\ ~result => Len(tmr.calls) + 1 < MaxTimerCalls
    /\ tmr' = [tmr EXCEPT
            !.calls = Append(@, [duration |-> threads[w].cb.duration,
                                 result |-> result]),
            !.tooSoon = @ \/ threads[w].cb.due > 0]
    /\ threads' = [threads EXCEPT ![w].pc = IF result THEN "done" ELSE "resched"]
    /\ UNCHANGED <<restVars, m_callbacks, sch, disp, work, schObs>>

\* the predicate returned false: timer_internal schedules the lambda again
WkResched(w) ==
    /\ threads[w].pc = "resched"
    /\ sch.lock = "free"
    /\ m_callbacks' = Append(m_callbacks, timer_internal(threads[w].cb.duration))
    /\ threads' = [threads EXCEPT ![w].pc = "done"]
    /\ UNCHANGED <<restVars, sch, disp, work, tmr, schObs>>

\* the callback returned: the worker is free again
WkDone(w) ==
    /\ threads[w].pc = "done"
    /\ threads' = [threads EXCEPT ![w].m_busy = FALSE, ![w].pc = "wait",
                                  ![w].cb = NoItem, ![w].served = TRUE]
    /\ UNCHANGED <<restVars, m_callbacks, sch, disp, work, tmr, schObs>>

Delays == {<<>>, <<0, 2, 10>>}

\* one run: the client configuration and the calls the user makes
Scenario(auto, max, delays, hsTimeout, nStarts, nStops, nInvokes, stoppers, nTasks) ==
    [auto |-> auto, max |-> max, delays |-> delays, hsTimeout |-> hsTimeout,
     userStarts |-> nStarts, stops |-> nStops, invokes |-> nInvokes, users |-> stoppers,
     sessions |-> nStarts + nTasks, tasks |-> nTasks, starters |-> {"u1"}]

\* repeated starts without auto-reconnect
PlainRuns == {Scenario(FALSE, -1, <<>>, 1, MaxUserStarts, 0, 0, {"u1"}, 0)}

\* a handshake timeout longer than the poll loop of the shim waits
SlowRuns == {Scenario(FALSE, -1, <<>>, MAX_WAIT_TICKS + 1, 1, 0, 0, {"u1"}, 0)}

\* stop calls of two threads
StopRuns == {Scenario(FALSE, -1, <<>>, 1, 1, MaxStops, 0, {"u1", "u2"}, 0)}

\* invocations
InvokeRuns == {Scenario(FALSE, -1, <<>>, 1, 1, 0, MaxInvokes, {"u1"}, 0)}

\* auto-reconnect
ReconnectRuns ==
    {Scenario(TRUE, -1, d, 1, 1, 0, 0, {"u1"}, MaxTasks) : d \in Delays}
        \cup {Scenario(TRUE, m, <<0, 2, 10>>, 1, 1, 0, 0, {"u1"}, MaxTasks) : m \in {0, 1}}

\* auto-reconnect and a stop of the user
ReconnectStopRuns == {Scenario(TRUE, 1, <<0, 2, 10>>, 1, 1, 1, 0, {"u1"}, 1)}

Config ==
    PlainRuns \cup SlowRuns \cup StopRuns \cup InvokeRuns \cup ReconnectRuns
        \cup ReconnectStopRuns

Init == \E c \in Config : InitWith(c)

Next ==
    \/ HandshakeStep
    \/ \E s \in Sessions, p \in Producers : HHWaitTimeout(s, p)
    \/ CoreStep
    \/ StartStep
    \/ StopStep
    \/ HandlerStep
    \/ ReconnectStep
    \/ InvokeStep

Spec == Init /\ [][Next]_vars

\* runs that probe the cap of the reconnect attempts: CapM attempts are
\* allowed and one task more than that may be created
CapRuns == {Scenario(TRUE, CapM, <<0, 2, 10>>, 1, 1, 0, 0, {"u1"}, CapM + 1)}

InitCap == \E c \in CapRuns : InitWith(c)

NextCap ==
    \/ HandshakeStep
    \/ CoreStep
    \/ StartStep
    \/ HandlerStep
    \/ ReconnectStep

SpecCap == InitCap /\ [][NextCap]_vars

\* the handshake of one start: the request is sent, the server answers with
\* a success or with an error field or stays silent; handshake timeouts
\* below and above the time the poll loop of the shim waits
HandshakeTimeouts == {1, 2, MAX_WAIT_TICKS + 1}

HsRuns == {Scenario(FALSE, -1, <<>>, h, 1, 0, 0, {"u1"}, 0) : h \in HandshakeTimeouts}

InitHs == \E c \in HsRuns : InitWith(c)

NextHs ==
    \/ \E s \in Sessions : SendCb(s, "null")
    \/ \E s \in Sessions : TimerTick(s)
    \/ \E s \in Sessions : TimerFire(s)
    \/ \E s \in Sessions : CtsCheck(s)
    \/ \E s \in Sessions, p \in Producers : HHGuard(s, p)
    \/ \E s \in Sessions, p \in Producers : HHWait(s, p)
    \/ \E s \in Sessions, p \in Producers : HHWaitTimeout(s, p)
    \/ \E s \in Sessions, p \in Producers : HHStop(s, p)
    \/ \E r \in {"ok", "rejected"} : ProcessHandshake(r)
    \/ CoreStep
    \/ StartStep
    \/ HandlerStep

SpecHs == InitHs /\ [][NextHs]_vars

\* two threads that call start at the same time
RaceRuns ==
    {[Scenario(FALSE, -1, <<>>, 1, MaxUserStarts, 0, 0, {"u1"}, 0) EXCEPT !.starters = Users]}

InitRace == \E c \in RaceRuns : InitWith(c)

NextRace ==
    \/ HandshakeStep
    \/ CoreStep
    \/ StartStep
    \/ HandlerStep

SpecRace == InitRace /\ [][NextRace]_vars

\* auto-reconnect against a server whose negotiate response may be the one
\* of a legacy server
LegacyRuns == {Scenario(TRUE, -1, <<0, 2, 10>>, 1, 1, 0, 0, {"u1"}, 2)}

InitLegacy == \E c \in LegacyRuns : InitWith(c)

NextLegacy ==
    \/ HandshakeStep
    \/ CoreStep
    \/ CoreStartLegacy
    \/ StartStep
    \/ HandlerStep
    \/ ReconnectStep

SpecLegacy == InitLegacy /\ [][NextLegacy]_vars

\* auto-reconnect with the keepalive timer watching the server timeout
KaRuns ==
    {Scenario(a, -1, <<2, 10>>, 1, 1, 0, 0, {"u1"}, 1) : a \in BOOLEAN}

InitKa == \E c \in KaRuns : InitWith(c)

NextKa ==
    \/ HandshakeStep
    \/ CoreStep
    \/ StartStep
    \/ HandlerStep
    \/ ReconnectStep
    \/ \E t \in Tasks : RtWaitTimeout(t)
    \/ \E t \in Targets : ProcessInvocation(t, FALSE)
    \/ KaSilence
    \/ KaTick

SpecKa == InitKa /\ [][NextKa]_vars

\* auto-reconnect without a backoff delay: the old keepalive timer may tick
\* between the loss of the connection and the next successful start or not
TimerRuns == {Scenario(TRUE, -1, <<0>>, 1, 1, 0, 0, {"u1"}, 1)}

InitTimers == \E c \in TimerRuns : InitWith(c)

SpecTimers == InitTimers /\ [][NextKa]_vars

\* auto-reconnect on and off, with attempts left and with none, against a
\* server that sends messages a client must not receive
ProtoRuns ==
    {Scenario(a, m, <<0, 2, 10>>, 1, 1, 0, 0, {"u1"}, 1) : a \in BOOLEAN, m \in {-1, 0}}

InitProto == \E c \in ProtoRuns : InitWith(c)

NextProto ==
    \/ HandshakeStep
    \/ CoreStep
    \/ StartStep
    \/ HandlerStep
    \/ ReconnectStep
    \/ \E kind \in OtherKinds : ProcessOther(kind)

SpecProto == InitProto /\ [][NextProto]_vars

\* a connected hub connection whose sends succeed or fail while time passes
InitPingRun == InitWith(Scenario(FALSE, -1, <<>>, 1, 0, 0, 0, {"u1"}, 0))

NextPing ==
    \/ ClockTick
    \/ \E outcome \in SendOutcomes : InvokeHubMethodSend(outcome)
    \/ \E outcome \in SendOutcomes : SendPing(outcome)

SpecPing == InitPingRun /\ [][NextPing]_vars

\* handlers are registered, the connection is started and the server
\* invokes targets; a handler may throw
MsgRuns == {Scenario(FALSE, -1, <<>>, 1, 1, 0, 0, {"u1"}, 0)}

InitMsg == \E c \in MsgRuns : InitWith(c)

NextMsg ==
    \/ \E t \in Targets \cup {""} : OnCheck(t)
    \/ OnInsert
    \/ \E t \in Targets, throws \in BOOLEAN : ProcessInvocation(t, throws)
    \/ \E s \in Sessions : SendCb(s, "null")
    \/ \E s \in Sessions : TimerTick(s)
    \/ \E s \in Sessions : TimerFire(s)
    \/ \E s \in Sessions : CtsCheck(s)
    \/ \E s \in Sessions, p \in Producers : HHGuard(s, p)
    \/ \E s \in Sessions, p \in Producers : HHWait(s, p)
    \/ \E s \in Sessions, p \in Producers : HHStop(s, p)
    \/ ProcessHandshake("ok")
    \/ CoreStep
    \/ StartStep
    \/ HandlerStep

SpecMsg == InitMsg /\ [][NextMsg]_vars

\* the websocket adapter under its receive loop, the socket's events and the
\* start and stop calls of the connection core
\* budgets of a run of the adapter: calls of start and stop, messages
WsScenario(nStarts, nStops, nMsgs, queueSize) ==
    [wsStarts |-> nStarts, wsStops |-> nStops, wsMsgs |-> nMsgs, wsQueue |-> queueSize]

\* one session with enough messages to keep every executor busy, and
\* restarts with fewer messages
WsRuns ==
    {WsScenario(1, 1, MaxMsgs, MAX_MESSAGE_QUEUE_SIZE),
     WsScenario(MaxWsStarts, MaxWsStarts - 1, MaxMsgs - 2, MAX_MESSAGE_QUEUE_SIZE)}

InitAdapter == \E c \in WsRuns : InitWith(c)

NextWs ==
    \/ \E failed \in BOOLEAN : WsStart(failed)
    \/ WsStartWait
    \/ LoopBegin
    \/ WsStopBegin
    \/ WsStopTake
    \/ WsStopEnd
    \/ handle_connected
    \/ handle_data
    \/ handle_disconnected
    \/ handle_error
    \/ DtWait
    \/ DtLoop
    \/ DtDeliver
    \/ \E created \in BOOLEAN : DtSpawn(created)
    \/ DtInlineCall
    \/ DtInlineReceive
    \/ DtRequeue
    \/ \E c \in Conts : ExecCall(c)
    \/ \E c \in Conts : ExecReceive(c)
    \/ \E c \in Conts : ExecGive(c)

SpecWs == InitAdapter /\ [][NextWs]_vars

\* the byte streams of at most MaxStream bytes and the ways of cutting one
\* into consecutive data events
Streams == UNION {[1..n -> Bytes] : n \in 0..MaxStream}

RECURSIVE Splits(_)
Splits(stream) ==
    IF stream = <<>>
    THEN {<<>>}
    ELSE UNION {{<<SubSeq(stream, 1, i)>> \o r :
                    r \in Splits(SubSeq(stream, i + 1, Len(stream)))} :
                i \in 1..Len(stream)}

InitFrame ==
    /\ InitRun(WsScenario(0, 0, 0, MAX_MESSAGE_QUEUE_SIZE))
    /\ InitBuffer /\ InitLocks /\ InitPing /\ InitSched
    /\ \E stream \in Streams : split \in Splits(stream)

SpecFrame == InitFrame /\ [][FrameData]_vars

\* the same streams, with a new start of the adapter between data events
NextStartAgain == FrameData \/ StartAgain

SpecStartAgain == InitFrame /\ [][NextStartAgain]_vars

InitLockRun == InitWith(WsScenario(0, 0, 0, MAX_MESSAGE_QUEUE_SIZE))

NextLocks ==
    \/ \E t \in LockTasks : \E path \in LockPaths(t) : LockBegin(t, path)
    \/ \E t \in LockTasks : LockAcquire(t)
    \/ \E t \in LockTasks : LockRelease(t)
    \/ \E t \in LockTasks, reenters \in BOOLEAN : LockInvoke(t, reenters)

SpecLocks == InitLockRun /\ [][NextLocks]_vars

\* the adapter restarted once, with messages left for the second session
RestartRuns == {WsScenario(MaxWsStarts, MaxWsStarts - 1, MaxMsgs, MAX_MESSAGE_QUEUE_SIZE)}

InitRestart == \E c \in RestartRuns : InitWith(c)

SpecRestart == InitRestart /\ [][NextWs]_vars

\* one session of the adapter built with a small queue, the socket sending
\* more messages than the queue and the executors take
QueueRuns == {WsScenario(1, 0, FillMsgs, SmallQueue)}

InitQueue == \E c \in QueueRuns : InitWith(c)

NextQueue ==
    \/ WsStart(FALSE)
    \/ WsStartWait
    \/ LoopBegin
    \/ handle_connected
    \/ handle_data
    \/ DtWait
    \/ DtLoop
    \/ DtDeliver
    \/ DtSpawn(TRUE)
    \/ DtRequeue
    \/ \E c \in Conts : ExecCall(c)
    \/ \E c \in Conts : ExecReceive(c)
    \/ \E c \in Conts : ExecGive(c)

SpecQueue == InitQueue /\ [][NextQueue]_vars

\* the same session with every way a delivery can go; the delivery task,
\* the executor tasks and the receive loop are tasks of the FreeRTOS
\* scheduler and run whenever they can, the socket events come as they come
NextDelivery ==
    \/ WsStart(FALSE)
    \/ WsStartWait
    \/ LoopBegin
    \/ handle_connected
    \/ handle_data
    \/ DtWait
    \/ DtCheckQueue
    \/ \E timedOut \in BOOLEAN : DtCheckCallback(timedOut)
    \/ DtDeliver
    \/ \E created \in BOOLEAN : DtSpawn(created)
    \/ DtInlineCall
    \/ DtInlineReceive
    \/ DtRequeue
    \/ \E c \in Conts : ExecCall(c)
    \/ \E c \in Conts : ExecReceive(c)
    \/ \E c \in Conts : ExecGive(c)

FairDelivery ==
    /\ WF_vars(LoopBegin)
    /\ WF_vars(DtWait) /\ WF_vars(DtCheckQueue) /\ WF_vars(DtDeliver)
    /\ WF_vars(\E timedOut \in BOOLEAN : DtCheckCallback(timedOut))
    /\ WF_vars(\E created \in BOOLEAN : DtSpawn(created))
    /\ WF_vars(DtInlineCall) /\ WF_vars(DtInlineReceive) /\ WF_vars(DtRequeue)
    /\ \A c \in Conts :
          WF_vars(ExecCall(c)) /\ WF_vars(ExecReceive(c)) /\ WF_vars(ExecGive(c))

SpecDelivery == InitQueue /\ [][NextDelivery]_vars /\ FairDelivery

\* the scheduler with the work items of its callers; the dispatcher and the
\* workers are FreeRTOS tasks that run whenever they can, and time passes
InitSchedRun == InitWith(WsScenario(0, 0, 0, MAX_MESSAGE_QUEUE_SIZE))

NextSched ==
    \/ \E i \in Items, delay \in 0..MaxDelay : Schedule(i, delay)
    \/ Close
    \/ \E outcome \in UseAfterFree : Destroy(outcome)
    \/ SchedTick
    \/ DispWake
    \/ DispScan
    \/ DispAdd
    \/ DispStart
    \/ \E w \in Workers : WkTake(w)
    \/ \E w \in Workers : WkGet(w)
    \/ \E w \in Workers : WkRun(w)
    \/ \E w \in Workers : WkDone(w)

FairSched ==
    /\ WF_vars(SchedTick)
    /\ WF_vars(DispWake) /\ WF_vars(DispScan) /\ WF_vars(DispAdd) /\ WF_vars(DispStart)
    /\ \A w \in Workers :
          /\ WF_vars(WkTake(w)) /\ WF_vars(WkGet(w)) /\ WF_vars(WkRun(w))
          /\ WF_vars(WkDone(w))

SpecSched == InitSchedRun /\ [][NextSched]_vars /\ FairSched

\* the timer next to one work item of a caller; a worker that waits for the
\* mutex of the scheduler gets it when the dispatcher releases it
NextTimer ==
    \/ TimerArm
    \/ Schedule(1, 0)
    \/ SchedTick
    \/ DispWake
    \/ DispScan
    \/ DispAdd
    \/ DispStart
    \/ \E w \in Workers : WkTake(w)
    \/ \E w \in Workers : WkGet(w)
    \/ \E w \in Workers : WkRun(w)
    \/ \E w \in Workers, result \in BOOLEAN : WkTimer(w, result)
    \/ \E w \in Workers : WkResched(w)
    \/ \E w \in Workers : WkDone(w)

FairTimer ==
    /\ FairSched
    /\ \A w \in Workers :
          /\ WF_vars(\E result \in BOOLEAN : WkTimer(w, result))
          /\ SF_vars(WkResched(w))

SpecTimer == InitSchedRun /\ [][NextTimer]_vars /\ FairTimer

\* ------------------------------------------------------------- properties
PendingStops == coreStopCbs \o hd.cbs \o fan

\* nothing can act for start call s any more
StartSettled(s) ==
    /\ sess[s].caller # "none"
    /\ corePending # s
    /\ \A u \in Users : ~(upc[u] = "start_core" /\ uarg[u] = s)
    /\ \A t \in Tasks : ~(tasks[t].pc = "start_core" /\ tasks[t].s = s)
    /\ Drained(s)
    /\ \A i \in 1..Len(PendingStops) :
           ~(PendingStops[i].k \in {"hs", "hs_rejected"} /\ PendingStops[i].s = s)

C2_InvokeOnce ==
    \A i \in 1..MaxInvokes :
        /\ inv[i].fired <= 1
        /\ inv[i].cleared /\ inv[i].pc \in {"sent", "failed", "completed"}
               => inv[i].fired >= 1

\* a reconnect task passes the state check of start and starts the core
TaskStartsCore ==
    \E t \in Tasks : /\ tasks[t].pc = "start_core" /\ tasks'[t].pc = "wait"
                     /\ coreState = "disconnected" /\ coreState' = "connecting"

\* C3 as claimed: after a user stop that arrived during a reconnect cycle
\* has completed, no reconnect task starts the connection until the user
\* calls start again
C3_NoReconnectAfterStop ==
    [][hist.userStopDone /\ hist.stopInCycle => ~TaskStartsCore]_vars

\* C4 as claimed: no more than max_reconnect_attempts consecutive reconnect
\* attempts fail before the client gives up
C4_AttemptsCapped == cfg.max >= 0 => hist.consecFailed <= cfg.max

\* the delay the k-th consecutive attempt is claimed to wait
ClaimedDelay(delays, k) ==
    IF Len(delays) = 0 THEN 0 ELSE delays[Min(k, Len(delays))]

\* C6 as claimed: the k-th consecutive attempt since the last successful
\* connection waits delays[min(k-1, len-1)], 0 when there are no delays
C6_BackoffByAttempt ==
    hist.lastK > 0 => hist.lastDelay = ClaimedDelay(cfg.delays, hist.lastK)

\* C5: the handler decides to reconnect only on a disconnection with an
\* error, with auto-reconnect enabled and the attempt counter below the
\* maximum (or no maximum), never on a disconnection a hub stop caused, and
\* it enters attempt_reconnect only after that decision
C5_ReconnectOnlyOnError ==
    [][/\ (hd.pc = "decide" /\ hd'.pc = "notify" /\ hd'.should)
              => /\ hd.exc # "null" /\ ~hd.user
                 /\ cfg.auto
                 /\ (cfg.max = -1 \/ m_reconnect_attempts < cfg.max)
       /\ (ar["hd"].pc # "begin" /\ ar'["hd"].pc = "begin") => hd.should]_vars

\* the handler enters attempt_reconnect after a disconnection with an error
C5_Witness == ar["hd"].pc = "begin" /\ hd.exc = "err" /\ cfg.auto

\* C7 as claimed: the state is connected only after the handshake completion
\* event of the current start resolved successfully
C7_ConnectedAfterHandshake ==
    coreState = "connected" => (m_handshakeTask # 0 /\ sess[m_handshakeTask].event = "ok")

\* C8: the disconnected callback fires at most once per disconnection event,
\* and when it fires the state is disconnected, unless a start that is not
\* part of the reconnect cycle of this disconnection has moved it on
C8_DisconnectedCallback ==
    /\ hd.fired <= 1
    /\ hist.fireState # "none" /\ ~hist.fireForeign => hist.fireState = "disconnected"

\* the callback fired for a disconnection that starts a reconnect cycle
C8_Witness ==
    hd.pc = "ar" /\ hd.should /\ hd.fired = 1 /\ hist.fireState = "disconnected"

\* C9 as claimed: the state moves only along the cycle or from connecting to
\* disconnected, and the asserts of start and stop never fail
C9_StateCycle ==
    [][/\ coreState' # coreState =>
              <<coreState, coreState'>> \in {<<"disconnected", "connecting">>,
                                              <<"connecting", "connected">>,
                                              <<"connected", "disconnecting">>,
                                              <<"disconnecting", "disconnected">>,
                                              <<"connecting", "disconnected">>}
       /\ hist'.startAssert /\ hist'.stopAssert]_vars

\* nothing can act for stop call k any more
StopSettled(k) ==
    /\ k < nextStop
    /\ \A u \in Users : upc[u] \notin {"stop_check", "stop_push", "stop_core"}
    /\ \A i \in 1..Len(PendingStops) : PendingStops[i].k # "hub"

\* C10: the callback of every stop call is invoked at most once, exactly
\* once when the stop calls and the stop of the core have run to completion,
\* and all stop calls get the same outcome
C10_StopCallbackOnce ==
    \A k \in 1..MaxStops :
        /\ stops[k].cb <= 1
        /\ StopSettled(k) => stops[k].cb = 1
        /\ \A j \in 1..MaxStops :
               stops[j].cb >= 1 /\ stops[k].cb >= 1 => stops[j].res = stops[k].res

\* two stop calls joined one in-flight stop and were completed together
C10_Witness ==
    \E j, k \in 1..MaxStops :
        /\ j # k /\ stops[j].cb = 1 /\ stops[k].cb = 1
        /\ stops[j].batch > 0 /\ stops[j].batch = stops[k].batch

\* C13 as claimed: once the handshake completion event holds the error of the
\* server's response, the start callback is never called with a success, it
\* is called with that error, and when nothing can act for the start call
\* any more the callback has fired and the connection is disconnected
C13_RejectedHandshake ==
    \A s \in Sessions :
        sess[s].event = "rejected" =>
            /\ sess[s].cb >= 1 => sess[s].res = "rejected"
            /\ StartSettled(s) /\ hd.pc = "idle" /\ coreState # "disconnecting"
                   => sess[s].cb = 1 /\ coreState = "disconnected"

\* C14 as claimed: while neither the server nor a disconnection resolved the
\* handshake completion event, the shim of a start whose request was sent
\* does not fail before the handshake timer has counted handshake_timeout,
\* and the timer resolves the event at the tick that reaches it
C14_HandshakeTimeout ==
    \A s \in Sessions :
        /\ \A p \in Producers :
               sess[s].pc[p] = "stop" /\ sess[s].ht # 0 /\ sess[sess[s].ht].event = "unset"
                   => sess[s].dur >= cfg.hsTimeout
        /\ sess[s].pc["timer"] = "fire" => sess[s].dur = cfg.hsTimeout

\* C15 as claimed: when a handler called for a server invocation throws, the
\* connection is not stopped: the state is still connected after the step
C15_HandlerExceptionKeepsConnection ==
    [][(\E t \in Targets : ProcessInvocation(t, TRUE)) => coreState' = "connected"]_vars

\* C16: a call of on() whose state test finds the connection not
\* disconnected, or whose target has a handler already, fails and leaves the
\* registry as it was; no failing call changes the registry; and the
\* handler called for a target is always the first one registered for it
C16_OnFailsWithoutChange ==
    [][/\ (onCalls' # onCalls /\ coreState # "disconnected")
              => /\ onResult' \in {"not_disconnected", "invalid_argument"}
                 /\ onCall'.pc = "idle"
                 /\ m_subscriptions' = m_subscriptions
       /\ (onCall.pc = "insert" /\ onCall'.pc = "idle" /\ m_subscriptions[onCall.target] # 0)
              => /\ onResult' = "already_registered"
                 /\ m_subscriptions' = m_subscriptions
       /\ (onResult' # onResult /\ onResult' \notin {"ok", "none"})
              => m_subscriptions' = m_subscriptions
       /\ dispatch'.h # 0 => dispatch'.h = firstHandler'[dispatch'.target]]_vars

\* a duplicate registration failed and the handler the server's invocation
\* reached afterwards is the first one registered for the target
C16_Witness ==
    /\ onResult = "already_registered"
    /\ dispatch.h # 0 /\ dispatch.h = firstHandler[dispatch.target]
    /\ onCalls > dispatch.h

\* a runner enters attempt_reconnect
BeginsReconnect == \E r \in Runners : ar[r].pc # "begin" /\ ar'[r].pc = "begin"

\* C17 as claimed: once a start has failed because the server is a legacy
\* server, no runner enters attempt_reconnect and no reconnect task starts
\* the connection
C17_NoReconnectAfterLegacy ==
    [][(\E s \in Sessions : sess[s].res = "legacy")
           => ~BeginsReconnect /\ ~TaskStartsCore]_vars

\* the disconnection the handler works on was begun by the keepalive timer
KaShutdown == hd.cbs # <<>> /\ Head(hd.cbs).k = "ka"

\* C12 as claimed: a keepalive tick that finds the connection connected and
\* the server-timeout deadline passed stops the connection with an error;
\* the disconnection handler then gets that error and calls the disconnected
\* callback with it; with auto-reconnect enabled and attempts allowed it
\* decides to reconnect, and the attempt it begins waits the first delay
C12_ServerTimeout ==
    [][/\ (ka.armed /\ ka.overdue /\ coreState = "connected" /\ KaTick)
              => coreState' = "disconnecting" /\ stopError' # "null"
       /\ (KaShutdown /\ hd.pc = "decide" /\ hd'.pc = "notify")
              => /\ hd.exc # "null"
                 /\ (cfg.auto /\ cfg.max # 0) => hd'.should
       /\ (KaShutdown /\ ar["hd"].pc = "begin" /\ ar'["hd"].pc = "delay")
              => hist'.lastDelay = get_next_reconnect_delay(cfg.delays, 0)]_vars
C19_SlotNeverLosesContinuation == \A c \in Conts : conts[c].lost = "no"
\* a step of the adapter's tasks, of the socket or of the receive loop, or
\* the rest of a call of start or stop that is in progress
WsInternal ==
    \/ WsStartWait \/ LoopBegin \/ WsStopTake \/ WsStopEnd
    \/ handle_connected \/ handle_data \/ handle_disconnected \/ handle_error
    \/ DtWait \/ DtLoop \/ DtDeliver \/ (\E created \in BOOLEAN : DtSpawn(created))
    \/ DtInlineCall \/ DtInlineReceive \/ DtRequeue
    \/ \E c \in Conts : ExecCall(c) \/ ExecReceive(c) \/ ExecGive(c)

\* nothing but a new call of start or stop can happen
WsIdle == ~ENABLED WsInternal

\* C20 as claimed: the socket reported a disconnect or an error while the
\* adapter was not stopping and no continuation was pending; the next
\* continuation given to receive is invoked with an error, at the latest
\* when the adapter has nothing left to do
C20_ReceiveLoopNotified ==
    \A c \in Conts : (wsn.owedCont = c /\ WsIdle) => conts[c].how = "err"

\* C11 as claimed: once the callback of the user's stop has fired with
\* success, the hub gets no message of that session to dispatch to a handler
C11_QuietAfterStop == ~wsn.late

\* C28 as claimed: a continuation that carries a message is never run on the
\* delivery task; when no executor task can be created the message goes
\* back to the head of the queue
C28_NeverOnDeliveryTask ==
    [][/\ ~DtInlineCall
       /\ DtSpawn(FALSE) => ws'.queue = <<dt.msg>> \o ws.queue]_vars

\* C29 as claimed: when the adapter has handled a disconnect event, an error
\* event or a stop, its message queue is empty
C29_QueueDrained ==
    [][(handle_disconnected \/ handle_error \/ WsStopEnd) => ws'.queue = <<>>]_vars
\* C21 as claimed: the message queue never holds more than its capacity:
\* a message added to a full queue replaces the oldest one, and the re-queue
\* path does not make the queue longer than the capacity
C21_QueueBounded == Len(ws.queue) <= cfg.wsQueue

\* the messages the hub has been handed so far
Handed == {conts[c].msg : c \in {d \in Conts : conts[d].how = "msg"}}

\* C22: messages are handed to the continuations of the hub in wire order:
\* the message a continuation is invoked with came after every message
\* that was handed over before
C22_WireOrder ==
    [][\A c \in Conts :
          (conts[c].how # "msg" /\ conts'[c].how = "msg")
              => \A m \in Handed : m < conts'[c].msg]_vars

\* the byte stream the data events carry
RECURSIVE Concat(_)
Concat(chunks) == IF chunks = <<>> THEN <<>> ELSE Head(chunks) \o Concat(Tail(chunks))

WaitsFor(t, l) ==
    /\ lockPath[t] # <<>> /\ Head(lockPath[t]) = Lock(l)
    /\ holder[l] # "free"

\* task t and the tasks it waits for, directly or in a chain, up to the
\* number of tasks
RECURSIVE Blockers(_, _)
Blockers(ts, n) ==
    IF n = 0 THEN ts
    ELSE Blockers(ts \cup {holder[l] : l \in {k \in Locks : \E t \in ts : WaitsFor(t, k)}},
                  n - 1)

\* C30: no task asks for m_queue_mutex while it holds m_callback_mutex, and
\* no task waits for a mutex that is held, directly or through a chain of
\* waiting tasks, by a task that waits for a mutex of the first
C30_LockOrder ==
    /\ \A t \in LockTasks :
          holder["m_callback_mutex"] = t
              => \A i \in 1..Len(lockPath[t]) : lockPath[t][i] # Lock("m_queue_mutex")
    /\ \A t \in LockTasks, l \in Locks :
          WaitsFor(t, l)
              => t \notin Blockers({holder[l]}, Cardinality(LockTasks))

\* one task holds both mutexes while two others wait: one for the queue
\* mutex, one, holding nothing, for the callback mutex
C30_Witness ==
    /\ holder["m_queue_mutex"] = "delivery" /\ holder["m_callback_mutex"] = "delivery"
    /\ WaitsFor("receive", "m_queue_mutex")
    /\ WaitsFor("control", "m_callback_mutex")
    /\ WaitsFor("event", "m_queue_mutex")

\* C24: when handle_disconnection calls the user's disconnected callback the
\* callback table is empty, and every invocation that was registered and
\* not completed has received the connection-stopped error
C24_TableClearedBeforeCallback ==
    [][HdNotify =>
          /\ table = {}
          /\ \A i \in 1..MaxInvokes :
                inv[i].pc \in {"registered", "sent"} => inv[i].how = "stopped"]_vars

\* a start has been called and its callback has not been invoked yet
StartInFlight == \E s \in Sessions : sess[s].caller # "none" /\ sess[s].cb = 0

\* C25: a start call that overlaps a start in progress fails and leaves
\* m_handshakeTask, m_disconnect_cts and m_handshakeReceived as they are
C25_SingleFlight ==
    [][\A u \in Users :
          (UserStartCheck(u) /\ StartInFlight)
              => /\ UNCHANGED hsVars
                 /\ sess'[nextSess].res = "err"]_vars

\* the messages a client must not receive
Violations == {"stream_invocation", "cancel_invocation", "unknown", "null"}

\* C26: a stream_invocation, cancel_invocation, unknown or null message
\* stops the connection with an error, and the disconnection handler that
\* runs for this stop decides to reconnect whenever auto-reconnect is on, no
\* cycle is running and attempts are left
C26_ViolationStops ==
    [][/\ \A kind \in Violations :
             ProcessOther(kind) => coreState' = "disconnecting" /\ stopError' # "null"
       /\ (HdDecide /\ hd.cbs # <<>> /\ Head(hd.cbs).k = "violation"
              /\ ShouldReconnect_anyExit(hd.exc))
             => hd'.should]_vars

\* the reconnect cycle begins after a stop that a forbidden message caused
C26_Witness ==
    /\ hd.cbs # <<>> /\ Head(hd.cbs).k = "violation"
    /\ hd.should /\ ar["hd"].pc = "begin"

\* C27: m_nextActivationSendPing changes only in a step of a send that
\* succeeded
C27_PingDeadlineOnSuccess ==
    [][m_nextActivationSendPing' # m_nextActivationSendPing
          => lastSend'.outcome = "ok"]_vars

\* the slots of the limiter in use: one per executor task, one while the
\* delivery task runs a continuation itself
SlotsInUse ==
    Cardinality(ex) + (IF dt.pc \in {"inline", "inline_receive"} THEN 1 ELSE 0)

\* C32: never more than MAX_CALLBACK_EXEC_TASKS executor tasks at a time, and
\* the free slots of the limiter plus the slots in use are always
\* MAX_CALLBACK_EXEC_TASKS
C32_LimiterBalanced ==
    /\ Cardinality(ex) <= MAX_CALLBACK_EXEC_TASKS
    /\ ws.limiter + SlotsInUse = MAX_CALLBACK_EXEC_TASKS

\* a slot was taken and given back by an executor task, and both slots are
\* in use again: one by an executor task, one by the delivery task that runs
\* a continuation itself
C32_Witness ==
    /\ ws.limiter = 0 /\ Cardinality(ex) = 1 /\ dt.pc = "inline_receive"
    /\ \E c \in Conts :
          /\ conts[c].fired = 1 /\ conts[c].how = "msg" /\ c # dt.cb
          /\ \A pc \in {"call", "receive", "give"} : Exec(c, pc) \notin ex

\* C39: a task that is about to invoke a receive continuation holds neither
\* mutex, and no task waits for a mutex it holds itself
C39_InvokeOutsideLocks ==
    /\ \A t \in LockTasks :
          (lockPath[t] # <<>> /\ Head(lockPath[t]) = Invoke)
              => \A l \in Locks : holder[l] # t
    /\ \A t \in LockTasks, l \in Locks : ~(WaitsFor(t, l) /\ holder[l] = t)

\* the continuation that stop invoked has re-entered receive and waits for
\* the queue mutex, which the delivery task holds
C39_Witness ==
    /\ lockPath["control"] = ReceiveLocks
    /\ holder["m_queue_mutex"] = "delivery"

\* C38: the messages pushed since the last start are those that handle_data
\* cuts out of the bytes received since that start, and right after a start
\* the receive buffer holds no byte
C38_OwnBytesOnly ==
    /\ enqueued = handle_data_bytes(<<>>,
                       Concat(SubSeq(split, connStart, nextEvent - 1))).msgs
    /\ connStart = nextEvent => m_receive_buffer = <<>>

\* message m is in the queue
Queued(m) == \E i \in 1..Len(ws.queue) : ws.queue[i] = m

\* message m was pushed and is neither queued nor part of a payload: it was
\* taken out of a full queue
Dropped(m) ==
    /\ m <= wsn.msgs /\ ~Queued(m)
    /\ dt.msg # m /\ \A c \in Conts : conts[c].msg # m

\* C31: while the delivery task runs, every queued message is eventually
\* handed to a continuation, unless it is dropped from a full queue
C31_EveryFrameDelivered ==
    \A m \in 1..FillMsgs :
        (Queued(m) /\ ws.running) ~> (m \in Handed \/ Dropped(m))

\* a message is queued, the delivery task has gone back to sleep on the
\* semaphore, which has no permit, no continuation is in the slot and the
\* one being run has not called receive yet
C31_Witness ==
    /\ ws.running /\ dt.pc = "wait" /\ ws.sem = 0
    /\ ws.queue # <<>> /\ ws.pending = 0
    /\ \E c \in Conts : Exec(c, "receive") \in ex

\* the reconnect attempts in flight, each named by its runner: a backoff
\* delay pending in attempt_reconnect, a reconnect task before the end of
\* its start, and a start that its reconnect task no longer waits for
PendingDelays == {r \in DOMAIN ar : ar[r].pc \in {"begin", "delay"}}
RunningTasks ==
    {t \in Tasks : tasks[t].pc \in {"check", "start_check", "start_core", "wait"}}
OrphanStarts ==
    {t \in Tasks : tasks[t].pc = "exit" /\ tasks[t].s # 0 /\ sess[tasks[t].s].cb = 0}
AttemptsInFlight == PendingDelays \cup RunningTasks \cup OrphanStarts

\* C35: at most one reconnect attempt is in flight
C35_OneAttemptInFlight == Cardinality(AttemptsInFlight) <= 1

\* the disconnection handler has decided to reconnect and is about to call
\* attempt_reconnect
CycleDecided == hd.should /\ hd.pc \in {"notify", "ar"}

\* C36: m_reconnecting is true exactly while a reconnect cycle is under way
C36_FlagTracksCycle == m_reconnecting <=> (AttemptsInFlight # {} \/ CycleDecided)

\* C37: at most one keepalive timer is armed
C37_OneKeepaliveTimer == ka.timers <= 1

\* work item i is in the list, in the hands of a worker, or both while the
\* dispatcher passes it on
InList(i) == \E k \in 1..Len(m_callbacks) : m_callbacks[k].id = i
AtWorker(i) ==
    \E w \in Workers :
        \/ threads[w].m_callback.id = i
        \/ threads[w].cb.id = i /\ threads[w].pc = "run"

\* C33: a work item passed to schedule is executed once and no more, by a
\* step of a worker, not before its ready time; until then it is in the
\* list or with a worker, and in the end every item that was passed has
\* been executed
C33_WorkExecutedOnce ==
    /\ [](\A i \in Items :
            /\ work[i].runs <= 1 /\ ~work[i].early
            /\ (work[i].state = "scheduled" /\ work[i].runs = 0)
                   => (InList(i) \/ AtWorker(i)))
    /\ [][\A i \in Items :
            work'[i].runs # work[i].runs => \E w \in Workers : WkRun(w)]_vars
    /\ <>[](\A i \in Items : work[i].state = "scheduled" => work[i].runs = 1)

\* C34: the predicate of the timer is invoked with the durations 1, 2, 3,
\* ..., never after an invocation that returned true, never less than a
\* tick after the one before or after timer(), and again after every
\* invocation that returned false
C34_TimerTicks ==
    /\ [](/\ \A k \in 1..Len(tmr.calls) : tmr.calls[k].duration = k
          /\ \A k \in 1..(Len(tmr.calls) - 1) : ~tmr.calls[k].result
          /\ ~tmr.tooSoon)
    /\ \A n \in 0..MaxTimerCalls :
          (tmr.armed /\ Len(tmr.calls) = n
              /\ (n > 0 => ~tmr.calls[n].result))
             ~> (Len(tmr.calls) = n + 1)

\* the predicate returned false twice and then true, and the worker that
\* ran the last invocation is free again
C34_Witness ==
    /\ Len(tmr.calls) = 3 /\ tmr.calls[3].result
    /\ \A w \in Workers : threads[w].pc = "wait"
    /\ m_callbacks = <<>>

\* C40: the asserts of thread::add have held, and no worker holds a
\* callback while the one it took before is not finished
C40_AddOnlyToFreeWorker ==
    /\ schObs.notClosed /\ schObs.notBusy
    /\ \A w \in Workers :
          threads[w].m_callback # NoItem => threads[w].pc \in {"wait", "lock"}

\* a worker that has finished a work item has been given the next one
C40_Witness ==
    \E w \in Workers : threads[w].served /\ threads[w].m_callback # NoItem

====
